---------------------------- MODULE Spec2Model ----------------------------
(***************************************************************************)
(* A model of yafpm's build orchestration (BuildCxt::exec_build and the    *)
(* helpers it calls).  One run of exec_build is one process: the command   *)
(* line front-end and the integration tests call it once per process.      *)
(* The host filesystem (store slot, build root) outlives a run; the mount  *)
(* namespace and the child environment belong to the run.                  *)
(*                                                                         *)
(* Every system call of the pipeline is one step.  A step whose outcome    *)
(* the program cannot determine (an I/O error, a refused mount, the exit   *)
(* status of the build command) is a nondeterministic choice; the ghost    *)
(* variable faulted records that the run met an error injected by the      *)
(* operating system rather than one that follows from the file system      *)
(* state.                                                                  *)
(***************************************************************************)
EXTENDS Integers, Sequences, FiniteSets, TLC

\* Number of exec_build runs (processes) a behaviour starts.
MaxRuns == 3

\* Number of enter_shell runs (processes) a behaviour starts.
MaxShellRuns == 2

\* Largest number of entries of the top directory of a hashed tree.
MaxEntries == 2

\* Longest text handed to the hash deserializer.
MaxTextLen == 5

\* How many entries an interrupted sealing got through in the directories
\* handed to set_readonly_all.
MaxSealed == 2

\* How many symbolic links the kernel follows while it resolves one path
\* before it gives up with ELOOP (40 on Linux).
MaxSymlinks == 2

(***************************************************************************)
(* Bytes, digests and their text forms                                     *)
(***************************************************************************)

\* The digest algorithm is a parameter of the program (hashes.rs, type
\* argument D).  It is modelled by a two-byte polynomial hash: fixed width,
\* deterministic, fed byte by byte.
HashMod == 256 * 256

RECURSIVE HashFold(_, _)
HashFold(h, bytes) ==
    IF bytes = <<>> THEN h
    ELSE HashFold((h * 31 + Head(bytes) + 1) % HashMod, Tail(bytes))

\* D::new(), input of the whole stream, result(): the digest as bytes.
Digest(bytes) ==
    LET h == HashFold(7, bytes) IN << h \div 256, h % 256 >>

\* A value of Result<S, HashError> without its payload.
HashResult(kind) ==
    [kind |-> kind, side |-> 0, expected |-> <<>>, found |-> <<>>]

\* Faulty variant of verify_hash_from_fn: the two digests of BadHash change
\* places.
verify_hash_from_fn_SwapsDigests(self, func) ==
    IF func.fails THEN HashResult("IOError")
    ELSE IF Digest(func.fed) # self
         THEN [HashResult("BadHash") EXCEPT !.expected = Digest(func.fed),
                                            !.found = self]
         ELSE [HashResult("Ok") EXCEPT !.side = func.side]

\* ItemHash::verify_hash_from_fn(&self, func, object).  func stands for the
\* call func(object, &mut hasher): the bytes it feeds the new hasher,
\* whether it returns Err, and the value it returns otherwise.
verify_hash_from_fn(self, func) ==
    IF func.fails THEN HashResult("IOError")
    ELSE IF Digest(func.fed) # self
         THEN [HashResult("BadHash") EXCEPT !.expected = self,
                                            !.found = Digest(func.fed)]
         ELSE [HashResult("Ok") EXCEPT !.side = func.side]

B32Alphabet ==
    << "A", "B", "C", "D", "E", "F", "G", "H", "I", "J", "K", "L", "M",
       "N", "O", "P", "Q", "R", "S", "T", "U", "V", "W", "X", "Y", "Z",
       "2", "3", "4", "5", "6", "7" >>

\* The bits of a byte sequence, most significant bit of each byte first.
RECURSIVE BitsOf(_)
BitsOf(bytes) ==
    IF bytes = <<>> THEN <<>>
    ELSE LET b == Head(bytes)
         IN  << (b \div 128) % 2, (b \div 64) % 2, (b \div 32) % 2,
                (b \div 16) % 2, (b \div 8) % 2, (b \div 4) % 2,
                (b \div 2) % 2, b % 2 >> \o BitsOf(Tail(bytes))

\* BASE32_NOPAD: five bits per character, the last group padded with zero
\* bits, no '=' padding characters.
RECURSIVE B32Chars(_)
B32Chars(bits) ==
    IF bits = <<>> THEN ""
    ELSE LET g == IF Len(bits) >= 5 THEN SubSeq(bits, 1, 5)
                  ELSE bits \o [i \in 1..(5 - Len(bits)) |-> 0]
             v == 16 * g[1] + 8 * g[2] + 4 * g[3] + 2 * g[4] + g[5]
             rest == IF Len(bits) > 5 THEN SubSeq(bits, 6, Len(bits)) ELSE <<>>
         IN  B32Alphabet[v + 1] \o B32Chars(rest)

Base32NoPad(bytes) == B32Chars(BitsOf(bytes))

\* Width of a digest in bytes (Digest::output_size).
OutputSize == Len(Digest(<<>>))

\* Text is a sequence of one-character strings.
HexLower ==
    << "0", "1", "2", "3", "4", "5", "6", "7", "8", "9",
       "a", "b", "c", "d", "e", "f" >>
HexUpper == << "A", "B", "C", "D", "E", "F" >>

\* fmt::LowerHex of the digest array, as format!("{:x}") calls it: two
\* characters per byte, high nibble first.
RECURSIVE LowerHex(_)
LowerHex(bytes) ==
    IF bytes = <<>> THEN <<>>
    ELSE << HexLower[(Head(bytes) \div 16) + 1], HexLower[(Head(bytes) % 16) + 1] >>
         \o LowerHex(Tail(bytes))

\* Serialize for ItemHash: the string handed to serialize_str.
serialize(h) == LowerHex(h)

\* HEXLOWER_PERMISSIVE: the value of a character, upper case translated to
\* lower case, -1 for a character outside the alphabet.
HexValue(ch) ==
    IF \E i \in 1..16 : HexLower[i] = ch
    THEN (CHOOSE i \in 1..16 : HexLower[i] = ch) - 1
    ELSE IF \E i \in 1..6 : HexUpper[i] = ch
    THEN (CHOOSE i \in 1..6 : HexUpper[i] = ch) + 9
    ELSE -1

\* HEX.encode_len(n): characters of the encoding of n bytes.
encode_len(n) == 2 * n

\* HEX.decode_mut on a text of even length.
RECURSIVE HexDecode(_)
HexDecode(v) ==
    IF v = <<>> THEN <<>>
    ELSE << 16 * HexValue(v[1]) + HexValue(v[2]) >> \o HexDecode(SubSeq(v, 3, Len(v)))

\* Faulty variant of visit_borrowed_str: the text is decoded before its
\* length is looked at.
visit_borrowed_str_DecodesFirst(v) ==
    IF \E i \in 1..Len(v) : HexValue(v[i]) < 0
    THEN [ok |-> FALSE, err |-> "hex parsing error", val |-> <<>>]
    ELSE IF Len(v) # encode_len(OutputSize)
    THEN [ok |-> FALSE, err |-> "invalid_length", val |-> <<>>]
    ELSE [ok |-> TRUE, err |-> "", val |-> HexDecode(v)]

\* ItemHashVisitor::visit_borrowed_str: the length check, then decode_mut
\* into an array of the digest's width.
visit_borrowed_str(v) ==
    IF Len(v) # encode_len(OutputSize)
    THEN [ok |-> FALSE, err |-> "invalid_length", val |-> <<>>]
    ELSE IF \E i \in 1..Len(v) : HexValue(v[i]) < 0
    THEN [ok |-> FALSE, err |-> "hex parsing error", val |-> <<>>]
    ELSE [ok |-> TRUE, err |-> "", val |-> HexDecode(v)]

(***************************************************************************)
(* Paths (std::path::PathBuf)                                              *)
(***************************************************************************)

AbsPath(comps) == [abs |-> TRUE, comps |-> comps]
RelPath(comps) == [abs |-> FALSE, comps |-> comps]

\* PathBuf::push / Path::join: an absolute argument replaces the path.
PathJoin(p, q) ==
    IF q.abs THEN q ELSE [abs |-> p.abs, comps |-> p.comps \o q.comps]

\* PathBuf::pop
PathPop(p) ==
    IF p.comps = <<>> THEN p
    ELSE [abs |-> p.abs, comps |-> SubSeq(p.comps, 1, Len(p.comps) - 1)]

\* Path::strip_prefix("/"): Ok(relative rest) of an absolute path, Err of a
\* relative one (the callers unwrap it).
StripRootOk(p) == p.abs
StripRoot(p) == [abs |-> FALSE, comps |-> p.comps]

\* The components of a text read as a path from its i-th character on, cur
\* being the component under way: "/" ends a component, and empty
\* components and "." are not components.
RECURSIVE Pieces(_, _, _)
Pieces(text, i, cur) ==
    LET done == IF cur \in {"", "."} THEN <<>> ELSE << cur >>
    IN  IF i > Len(text) THEN done
        ELSE IF SubSeq(text, i, i) = "/" THEN done \o Pieces(text, i + 1, "")
        ELSE Pieces(text, i + 1, cur \o SubSeq(text, i, i))

\* A text taken as a path (AsRef<Path> for String): absolute when it starts
\* with "/".
PathOfText(text) ==
    [abs |-> Len(text) > 0 /\ SubSeq(text, 1, 1) = "/",
     comps |-> Pieces(text, 1, "")]

(***************************************************************************)
(* Directory trees                                                         *)
(***************************************************************************)

\* An entry of a directory: name and content are byte sequences, ro is the
\* read-only permission bit, children are in the order read_dir lists them.
FileNode(name, bytes) ==
    [name |-> name, kind |-> "file", bytes |-> bytes, children |-> <<>>, ro |-> FALSE]
LinkNode(name, target) ==
    [name |-> name, kind |-> "symlink", bytes |-> target, children |-> <<>>, ro |-> FALSE]
DirNode(name, children) ==
    [name |-> name, kind |-> "dir", bytes |-> <<>>, children |-> children, ro |-> FALSE]

\* Lexicographic order on byte sequences (Ord for paths with a common parent).
RECURSIVE BytesLess(_, _)
BytesLess(a, b) ==
    IF b = <<>> THEN FALSE
    ELSE IF a = <<>> THEN TRUE
    ELSE IF Head(a) # Head(b) THEN Head(a) < Head(b)
    ELSE BytesLess(Tail(a), Tail(b))

\* entries.sort_by(path): insertion sort, stable.
RECURSIVE InsertSorted(_, _)
InsertSorted(e, sorted) ==
    IF sorted = <<>> THEN << e >>
    ELSE IF BytesLess(e.name, Head(sorted).name)
         THEN << e >> \o sorted
         ELSE << Head(sorted) >> \o InsertSorted(e, Tail(sorted))

\* Faulty variant of SortEntries: the entries stay in read_dir order.
SortEntries_Unsorted(entries) == entries

RECURSIVE SortEntries(_)
SortEntries(entries) ==
    IF entries = <<>> THEN <<>>
    ELSE InsertSorted(entries[Len(entries)],
                      SortEntries(SubSeq(entries, 1, Len(entries) - 1)))

\* The bytes calculate_directory_hash writes to the hasher for a directory
\* with the given children.
RECURSIVE DirStream(_), EntriesStream(_)
DirStream(children) == EntriesStream(SortEntries(children))

\* Faulty variant of EntriesStream: the content of regular files is not
\* written.
RECURSIVE EntriesStream_NoContent(_)
EntriesStream_NoContent(sorted) ==
    IF sorted = <<>> THEN <<>>
    ELSE LET e == Head(sorted)
             body == IF e.kind = "dir" THEN DirStream(e.children)
                     ELSE IF e.kind = "file" THEN <<>> ELSE e.bytes
         IN  e.name \o body \o EntriesStream_NoContent(Tail(sorted))

EntriesStream(sorted) ==
    IF sorted = <<>> THEN <<>>
    ELSE LET e == Head(sorted)
             body == IF e.kind = "dir" THEN DirStream(e.children) ELSE e.bytes
         IN  e.name \o body \o EntriesStream(Tail(sorted))

DirHash(children) == Digest(DirStream(children))

\* dirs::set_readonly_all: metadata, set_permissions on the entry, then each
\* child of a directory in read_dir order.  k is the number of
\* set_permissions calls that succeed before one fails; the result is the
\* entries as left behind and the calls still allowed.
\* Faulty variant of SetRoEntry: the entries of a directory are left as they
\* are.
SetRoEntry_Shallow(e, b, k) ==
    IF k = 0 THEN [e |-> e, k |-> 0]
    ELSE [e |-> [e EXCEPT !.ro = b], k |-> k - 1]

RECURSIVE SetRoEntry(_, _, _), SetRoEntries(_, _, _)
SetRoEntry(e, b, k) ==
    IF k = 0 THEN [e |-> e, k |-> 0]
    ELSE IF e.kind = "dir"
         THEN LET r == SetRoEntries(e.children, b, k - 1)
              IN  [e |-> [e EXCEPT !.ro = b, !.children = r.es], k |-> r.k]
         ELSE [e |-> [e EXCEPT !.ro = b], k |-> k - 1]
SetRoEntries(es, b, k) ==
    IF es = <<>> THEN [es |-> <<>>, k |-> k]
    ELSE LET h == SetRoEntry(Head(es), b, k)
             t == SetRoEntries(Tail(es), b, h.k)
         IN  [es |-> << h.e >> \o t.es, k |-> t.k]

RECURSIVE CountEntries(_)
CountEntries(es) ==
    IF es = <<>> THEN 0
    ELSE 1 + CountEntries(Head(es).children) + CountEntries(Tail(es))

RECURSIVE AllEntriesRo(_)
AllEntriesRo(es) ==
    \A i \in 1..Len(es) : es[i].ro /\ AllEntriesRo(es[i].children)

\* Some directory that still holds entries is read-only: unlinking its
\* entries is refused (EACCES) to an unprivileged owner.
RECURSIVE HasRoParent(_)
HasRoParent(es) ==
    \E i \in 1..Len(es) :
        \/ es[i].kind = "dir" /\ es[i].ro /\ es[i].children # <<>>
        \/ HasRoParent(es[i].children)

(***************************************************************************)
(* A store slot store_dir/ident: the directory and its entries             *)
(***************************************************************************)

NoSlot == [exists |-> FALSE, ro |-> FALSE, children |-> <<>>]
EmptySlot == [exists |-> TRUE, ro |-> FALSE, children |-> <<>>]

SlotEntries(s) == 1 + CountEntries(s.children)

\* set_readonly_all(out_dir, b) stopped after k successful set_permissions.
SetReadonlyUpTo(s, b, k) ==
    IF k = 0 THEN s
    ELSE [s EXCEPT !.ro = b, !.children = SetRoEntries(s.children, b, k - 1).es]

SetReadonlyAll(s, b) == SetReadonlyUpTo(s, b, SlotEntries(s))

SlotAllReadonly(s) == s.ro /\ AllEntriesRo(s.children)

\* fs::remove_dir_all is refused when a read-only directory of the tree still
\* holds entries, unless the caller overrides permissions (real root).
RemovalPermitted(s, root) ==
    root \/ ~ ((s.ro /\ s.children # <<>>) \/ HasRoParent(s.children))

(***************************************************************************)
(* Packages, resources and build contexts                                  *)
(***************************************************************************)

\* Package::new
Package(name, version, hash) ==
    [pkg_name |-> name, pkg_version |-> version, deps |-> <<>>, hash |-> hash]

\* Package::add_deps
add_deps(p, more) == [p EXCEPT !.deps = p.deps \o more]

\* Faulty variant of pkg_ident: the dependencies leave a mark in the
\* identifier.
pkg_ident_MarksDeps(p) ==
    p.pkg_name \o "-" \o p.pkg_version \o "-" \o Base32NoPad(p.hash)
    \o (IF p.deps = <<>> THEN "" ELSE "+")

\* Faulty variant of pkg_ident: the version is left out.
pkg_ident_NoVersion(p) ==
    p.pkg_name \o "-" \o Base32NoPad(p.hash)

\* Package::pkg_ident: format!("{}-{}-", name, version) followed by
\* BASE32_NOPAD of the hash bytes.
pkg_ident(p) ==
    p.pkg_name \o "-" \o p.pkg_version \o "-" \o Base32NoPad(p.hash)

\* What the build command of the modelled package is meant to produce, and
\* two other things it may leave in the output slot.
TreeGood == << DirNode(<<2>>, << FileNode(<<1>>, <<7, 7>>) >>), FileNode(<<1>>, <<5>>) >>
TreeBad == << FileNode(<<1>>, <<6>>) >>
OutTrees == { TreeGood, TreeBad, <<>> }

\* The bytes behind a resource URL, and what the file may hold instead.
SrcBytes == <<4, 2>>
SrcBytesAltered == <<4, 3>>

Resource(name, hash, scheme) == [name |-> name, hash |-> hash, scheme |-> scheme]

NoVars == [k \in {} |-> ""]

\* BuildCxt::new followed by add_pkg_deps, add_srcs, add_build_deps.
CxtWithDeps ==
    [pkg_info |-> add_deps(Package("unhex", "0.0", DirHash(TreeGood)),
                           << Package("libc", "1", Digest(<<1>>)) >>),
     build_settings |-> [k \in {"CC"} |-> "cc"],
     srcs |-> << Resource("unhex", Digest(SrcBytes), "file"),
                 Resource("unhex.x", Digest(SrcBytes), "file") >>,
     build_deps |-> << Package("tool", "2", Digest(<<2>>)) >>,
     build_cmd |-> "/unhex"]

CxtPlain ==
    [pkg_info |-> Package("unhex", "0.0", DirHash(TreeGood)),
     build_settings |-> [k \in {"out", "HOME"} |-> "/elsewhere"],
     srcs |-> << Resource("unhex", Digest(SrcBytes), "file") >>,
     build_deps |-> <<>>,
     build_cmd |-> "/unhex"]

CxtFtp ==
    [pkg_info |-> Package("unhex", "0.0", DirHash(TreeGood)),
     build_settings |-> NoVars,
     srcs |-> << Resource("unhex", Digest(SrcBytes), "http"),
                 Resource("x", Digest(SrcBytes), "ftp") >>,
     build_deps |-> <<>>,
     build_cmd |-> "/unhex"]

\* A package whose first dependency has a name with a directory in it,
\* whose second dependency is a build dependency as well, and whose
\* dependencies and build settings use the names the builder sets itself.
CxtSubdirDep ==
    [pkg_info |-> add_deps(Package("unhex", "0.0", DirHash(TreeGood)),
                           << Package("sub/libc", "1", Digest(<<1>>)),
                              Package("out", "2", Digest(<<2>>)) >>),
     build_settings |-> [k \in {"PATH"} |-> "/bin"],
     srcs |-> <<>>,
     build_deps |-> << Package("out", "2", Digest(<<2>>)),
                       Package("PATH", "3", Digest(<<3>>)) >>,
     build_cmd |-> "/unhex"]

Configs == { CxtWithDeps, CxtPlain, CxtFtp, CxtSubdirDep }

\* The store path argument of exec_build, and the working directory a
\* relative one is resolved against.
StoreArgs == { AbsPath(<< "yafpm" >>), RelPath(<< "store" >>) }
Cwd == AbsPath(<< "home" >>)

\* env::temp_dir()
TempDir == AbsPath(<< "tmp" >>)

\* Environments the parent process may have.
ParentEnvs ==
    { NoVars,
      [k \in {"SECRET", "PATH"} |-> "parent"],
      [k \in {"SECRET", "out", "CC", "libc"} |-> "parent"] }

\* Exit statuses of the build command.
ExitStatuses == { "exit0", "exit1", "signal9" }

\* Context::context_name for BuildCxt
context_name(c) == c.pkg_info.pkg_name

\* Faulty variant of dependencies: the build dependencies come first.
dependencies_BuildDepsFirst(c) == c.build_deps \o c.pkg_info.deps

\* Context::dependencies for BuildCxt: pkg_info.deps chained with build_deps.
dependencies(c) == c.pkg_info.deps \o c.build_deps

\* ShellCxt::new
ShellCxt(shell_cmd) ==
    [resources |-> <<>>, shell_deps |-> <<>>, shell_cmd |-> shell_cmd]

\* ShellCxt::add_resources, ShellCxt::add_deps
add_resources(c, more) == [c EXCEPT !.resources = c.resources \o more]
add_shell_deps(c, more) == [c EXCEPT !.shell_deps = c.shell_deps \o more]

\* Context::context_name for ShellCxt, called when the clock shows secs.
shell_context_name(secs) == "shell-" \o ToString(secs)

\* Context::dependencies and Context::resources for ShellCxt
shell_dependencies(c) == c.shell_deps
shell_resources(c) == c.resources

\* Context::resources for BuildCxt
resources(c) == c.srcs

\* The calls self.context_name(), self.resources() and self.dependencies()
\* of the Context trait's provided methods go to the implementation of the
\* context's type.
IsShellCxt(c) == "shell_cmd" \in DOMAIN c
self_context_name(c, secs) ==
    IF IsShellCxt(c) THEN shell_context_name(secs) ELSE context_name(c)
self_resources(c) == IF IsShellCxt(c) THEN shell_resources(c) ELSE resources(c)
self_dependencies(c) ==
    IF IsShellCxt(c) THEN shell_dependencies(c) ELSE dependencies(c)

\* Shell contexts: one with two dependencies and a resource, one with
\* neither.
ShellWithDeps ==
    add_resources(add_shell_deps(ShellCxt("/bin/sh"),
                                 << Package("libc", "1", Digest(<<1>>)),
                                    Package("tool", "2", Digest(<<2>>)) >>),
                  << Resource("notes", Digest(SrcBytes), "file") >>)
ShellPlain == ShellCxt("/bin/sh")
ShellConfigs == { ShellWithDeps, ShellPlain }

\* The text of a path (OsStr).
RECURSIVE CompsStr(_)
CompsStr(comps) ==
    IF comps = <<>> THEN ""
    ELSE IF Len(comps) = 1 THEN Head(comps)
    ELSE Head(comps) \o "/" \o CompsStr(Tail(comps))

PathStr(p) == (IF p.abs THEN "/" ELSE "") \o CompsStr(p.comps)

\* Context::make_path_string
RECURSIVE PathStringOf(_, _)
PathStringOf(store, deps) ==
    IF deps = <<>> THEN ""
    ELSE PathStr(store) \o "/" \o pkg_ident(Head(deps)) \o "/bin/:"
         \o PathStringOf(store, Tail(deps))

make_path_string(c, store) == PathStringOf(store, self_dependencies(c))

(***************************************************************************)
(* std::process::Command environment                                       *)
(***************************************************************************)

\* Command::new: nothing cleared, no explicit variables.
NewCommandEnv == [clear |-> FALSE, vars |-> NoVars]

\* Command::env_clear
env_clear(ce) == [clear |-> TRUE, vars |-> NoVars]

\* Command::env: a later insertion of a key replaces an earlier one.
env(ce, k, v) == [ce EXCEPT !.vars = (k :> v) @@ ce.vars]

\* Command::envs with one (name, store path) pair per dependency
\* (dep_env_clos).
RECURSIVE envs_deps(_, _, _)
envs_deps(ce, store, deps) ==
    IF deps = <<>> THEN ce
    ELSE envs_deps(env(ce, Head(deps).pkg_name,
                       PathStr(PathJoin(store, RelPath(<< pkg_ident(Head(deps)) >>)))),
                   store, Tail(deps))

\* Command::envs with a map.
envs_map(ce, m) == [ce EXCEPT !.vars = m @@ ce.vars]

\* The environment the child is started with: the parent's unless cleared,
\* then the explicit variables.
CaptureEnv(ce, parent) == ce.vars @@ (IF ce.clear THEN NoVars ELSE parent)

\* Faulty variant of BuildCmdEnv: env_clear() is left out.
BuildCmdEnv_NoClear(c, store, out_dir) ==
    env(env(envs_map(envs_deps(envs_deps(NewCommandEnv, store, c.build_deps),
                               store, c.pkg_info.deps),
                     c.build_settings),
            "out", PathStr(out_dir)),
        "PATH", make_path_string(c, store))

\* Faulty variant of BuildCmdEnv: "out" is set before the configured build
\* settings, which may then replace it.
BuildCmdEnv_OutFirst(c, store, out_dir) ==
    env(envs_map(env(envs_deps(envs_deps(env_clear(NewCommandEnv),
                                         store, c.build_deps),
                               store, c.pkg_info.deps),
                     "out", PathStr(out_dir)),
                 c.build_settings),
        "PATH", make_path_string(c, store))

\* Faulty variant of BuildCmdEnv: the configured build settings are applied
\* after "out" and "PATH", which they may then replace.
BuildCmdEnv_SettingsLast(c, store, out_dir) ==
    envs_map(env(env(envs_deps(envs_deps(env_clear(NewCommandEnv),
                                         store, c.build_deps),
                               store, c.pkg_info.deps),
                     "out", PathStr(out_dir)),
                 "PATH", make_path_string(c, store)),
             c.build_settings)

\* The environment part of exec_shell_cmd's command construction.
ShellCmdEnv(c, store) ==
    env(envs_deps(env_clear(NewCommandEnv), store, shell_dependencies(c)),
        "PATH", make_path_string(c, store))

\* The environment part of exec_build_cmd's command construction.
BuildCmdEnv(c, store, out_dir) ==
    env(env(envs_map(envs_deps(envs_deps(env_clear(NewCommandEnv),
                                         store, c.build_deps),
                               store, c.pkg_info.deps),
                     c.build_settings),
            "out", PathStr(out_dir)),
        "PATH", make_path_string(c, store))

(***************************************************************************)
(* State                                                                   *)
(***************************************************************************)

VARIABLES
    cxt,          \* the BuildCxt every run is given
    storeArg,     \* the store path every run is given
    euidRoot,     \* whether the builder runs as the real root user
    runNo,        \* number of runs started
    results,      \* the results of the finished runs, oldest first
    tampered,     \* the slot was rewritten by hand between runs
    pc,           \* position of the current run in exec_build
    store_dir,    \* pkg_store_dir after the absolute/canonicalize step
    srcIdx,       \* next resource of the fetch loop
    depIdx,       \* next dependency of the mount / unmount loop
    bind_dir,     \* loop-carried path buffer of mount_dep_dirs / umount_dep_dirs
    dep_dir,      \* loop-carried path buffer of mount_dep_dirs / umount_dep_dirs
    buildRoot,    \* the build root directory on the host
    slot,         \* the store slot store_dir/ident(package) on the host
    mounts,       \* bind mounts of the run's mount namespace, oldest first
    parentEnv,    \* environment of the builder process
    childEnv,     \* environment the build command was started with
    spawned,      \* number of times the run started the build command
    hashed,       \* what verify_build_hash walked in this run
    result,       \* what exec_build returned
    log,          \* the run's system-level steps and their outcomes
    faulted,      \* the run met an error injected by its environment
    now,          \* the clock, in seconds, as the run's context_name call reads it
    arg,          \* the arguments of a call of a library function
    ret,          \* the values the call and the calls made on its result returned
    peer,         \* a second exec_build process working on the same package
    walk          \* a call of set_readonly_all on a directory with links, under way

vars == << cxt, storeArg, euidRoot, runNo, results, tampered, pc, store_dir,
           srcIdx, depIdx, bind_dir, dep_dir, buildRoot, slot, mounts,
           parentEnv, childEnv, spawned, hashed, result, log, faulted, now,
           arg, ret, peer, walk >>

inputs == << cxt, storeArg, euidRoot >>

NoPath == RelPath(<<>>)
NoCall == [fn |-> ""]
NoDigest == <<>>
NoFiles == [n \in {} |-> <<>>]
NoRoot == [exists |-> FALSE, files |-> NoFiles]
NotHashed == [done |-> FALSE, children |-> <<>>]

\* No call of set_readonly_all on a directory with links is under way.
NoWalk == [status |-> "idle", err |-> "", stack |-> <<>>, ro |-> [n \in {} |-> FALSE]]

\* The second process: where it is in exec_build, whether the build root
\* that is there is the one it created, whether it has created, written
\* or removed anything in the store, and what its exec_build returned.
NoPeer == [pc |-> "idle", owns |-> FALSE, touched |-> FALSE, kind |-> "", cause |-> ""]

\* A value of Result<PKG, BuildError>: kind is "Ok" or the BuildError
\* variant, cause the wrapped error, then the fields some variants carry.
Res(kind, cause) ==
    [kind |-> kind, cause |-> cause, status |-> "", expected |-> NoDigest,
     found |-> NoDigest, teardown_err |-> "", name |-> "", scheme |-> "",
     source_dir |-> NoPath, target_dir |-> NoPath]
NoResult == Res("", "")

\* build_dir as create_context_dir returns it: temp_dir pushed with the name.
build_dir == PathJoin(TempDir, RelPath(<< self_context_name(cxt, now) >>))

\* out_dir: pkg_store_dir.join(pkg_ident)
out_dir == PathJoin(store_dir, PathOfText(pkg_ident(cxt.pkg_info)))

Logged(op, out) == log' = Append(log, [op |-> op, out |-> out])

\* exec_build returns r.
Return(r) ==
    /\ pc' = "done"
    /\ result' = r
    /\ results' = Append(results, r)

Init ==
    /\ cxt \in Configs
    /\ storeArg \in StoreArgs
    /\ euidRoot \in BOOLEAN
    /\ runNo = 0
    /\ results = <<>>
    /\ tampered = FALSE
    /\ pc = "idle"
    /\ store_dir = NoPath
    /\ srcIdx = 1
    /\ depIdx = 1
    /\ bind_dir = NoPath
    /\ dep_dir = NoPath
    /\ buildRoot = NoRoot
    /\ slot = NoSlot
    /\ mounts = <<>>
    /\ parentEnv = NoVars
    /\ childEnv = NoVars
    /\ spawned = 0
    /\ hashed = NotHashed
    /\ result = NoResult
    /\ log = <<>>
    /\ faulted = FALSE
    /\ now = 0
    /\ arg = NoCall
    /\ ret = <<>>
    /\ peer = NoPeer
    /\ walk = NoWalk

(***************************************************************************)
(* The environment of the runs                                             *)
(***************************************************************************)

\* A new process calls exec_build(cxt, storeArg).  Its mount table holds
\* none of an earlier run's bind mounts: those lived in that run's private
\* mount namespace.
StartRun ==
    /\ pc \in {"idle", "done"}
    /\ runNo < MaxRuns
    /\ runNo' = runNo + 1
    /\ parentEnv' \in ParentEnvs
    /\ pc' = "canon"
    /\ store_dir' = NoPath
    /\ srcIdx' = 1
    /\ depIdx' = 1
    /\ bind_dir' = NoPath
    /\ dep_dir' = NoPath
    /\ mounts' = <<>>
    /\ childEnv' = NoVars
    /\ spawned' = 0
    /\ hashed' = NotHashed
    /\ result' = NoResult
    /\ log' = <<>>
    /\ faulted' = FALSE
    /\ UNCHANGED << walk, peer, now, arg, ret, cxt, storeArg, euidRoot, results, tampered, buildRoot,
                    slot >>

\* The first regular file met in read_dir order gets its first byte rewritten.
RECURSIVE RewriteFirstFile(_)
RewriteFirstFile(es) ==
    IF es = <<>> THEN <<>>
    ELSE LET e == Head(es)
         IN  IF e.kind = "file" /\ e.bytes # <<>>
             THEN << [e EXCEPT !.bytes = << (Head(e.bytes) + 1) % 256 >>
                                          \o Tail(e.bytes)] >> \o Tail(es)
             ELSE IF e.kind = "dir" /\ RewriteFirstFile(e.children) # e.children
             THEN << [e EXCEPT !.children = RewriteFirstFile(e.children)] >> \o Tail(es)
             ELSE << e >> \o RewriteFirstFile(Tail(es))

\* Between two runs somebody rewrites a byte of a file of the slot.
Tamper ==
    /\ pc \in {"idle", "done"}
    /\ ~ tampered
    /\ slot.exists
    /\ RewriteFirstFile(slot.children) # slot.children
    /\ slot' = [slot EXCEPT !.children = RewriteFirstFile(slot.children)]
    /\ tampered' = TRUE
    /\ UNCHANGED << walk, peer, now, arg, ret, cxt, storeArg, euidRoot, runNo, results, pc, store_dir,
                    srcIdx, depIdx, bind_dir, dep_dir, buildRoot, mounts,
                    parentEnv, childEnv, spawned, hashed, result, log, faulted >>

(***************************************************************************)
(* exec_build, step by step                                                *)
(***************************************************************************)

Continue(next) == pc' = next /\ result' = result /\ results' = results

\* What follows prepare_context_dir: setup_out_dir in exec_build,
\* exec_shell_cmd in enter_shell.
AfterPrepare == IF IsShellCxt(cxt) THEN "exec_shell" ELSE "mkout"
Fault == faulted' = TRUE
NoFault == faulted' = faulted

\* Faulty variant of Canonicalize: the store path is used as it was given.
Canonicalize_KeepsRelative ==
    /\ pc = "canon"
    /\ store_dir' = storeArg
    /\ Continue("mkroot")
    /\ log' = log
    /\ NoFault
    /\ UNCHANGED << walk, peer, now, arg, ret, cxt, storeArg, euidRoot, runNo, tampered, srcIdx, depIdx,
                    bind_dir, dep_dir, buildRoot, slot, mounts, parentEnv,
                    childEnv, spawned, hashed >>

\* exec_build: an absolute store path is taken as it is, a relative one is
\* canonicalized.
Canonicalize ==
    /\ pc = "canon"
    /\ IF storeArg.abs
       THEN /\ store_dir' = storeArg
            /\ Continue("mkroot")
            /\ log' = log
            /\ NoFault
       ELSE \/ /\ store_dir' = PathJoin(Cwd, storeArg)
               /\ Continue("mkroot")
               /\ Logged("canonicalize", "ok")
               /\ NoFault
            \/ /\ store_dir' = store_dir
               /\ Return(Res("CanonicalizeError", "io"))
               /\ Logged("canonicalize", "err")
               /\ Fault
    /\ UNCHANGED << walk, peer, now, arg, ret, cxt, storeArg, euidRoot, runNo, tampered, srcIdx, depIdx,
                    bind_dir, dep_dir, buildRoot, slot, mounts, parentEnv,
                    childEnv, spawned, hashed >>

\* Faulty variant of CreateContextDir: a directory that is already there is
\* used as the build root.
CreateContextDir_Reuses ==
    /\ pc = "mkroot"
    /\ \/ /\ buildRoot.exists
          /\ buildRoot' = buildRoot
          /\ Continue(IF self_resources(cxt) = <<>> THEN "unshare" ELSE "fetch")
          /\ Logged("create_context_dir", "EEXIST")
          /\ NoFault
       \/ /\ ~ buildRoot.exists
          /\ buildRoot' = [exists |-> TRUE, files |-> NoFiles]
          /\ Continue(IF self_resources(cxt) = <<>> THEN "unshare" ELSE "fetch")
          /\ Logged("create_context_dir", "ok")
          /\ NoFault
    /\ srcIdx' = 1
    /\ UNCHANGED << walk, peer, now, arg, ret, cxt, storeArg, euidRoot, runNo, tampered, store_dir,
                    depIdx, bind_dir, dep_dir, slot, mounts, parentEnv,
                    childEnv, spawned, hashed >>

\* prepare_context_dir, first statement: dirs::create_context_dir.
CreateContextDir ==
    /\ pc = "mkroot"
    /\ \/ /\ buildRoot.exists
          /\ buildRoot' = buildRoot
          /\ Return(Res("SetupError", "EEXIST"))
          /\ Logged("create_context_dir", "EEXIST")
          /\ NoFault
       \/ /\ ~ buildRoot.exists
          /\ buildRoot' = [exists |-> TRUE, files |-> NoFiles]
          /\ Continue(IF self_resources(cxt) = <<>> THEN "unshare" ELSE "fetch")
          /\ Logged("create_context_dir", "ok")
          /\ NoFault
       \/ /\ ~ buildRoot.exists
          /\ buildRoot' = buildRoot
          /\ Return(Res("SetupError", "io"))
          /\ Logged("create_context_dir", "err")
          /\ Fault
    /\ srcIdx' = 1
    /\ UNCHANGED << walk, peer, now, arg, ret, cxt, storeArg, euidRoot, runNo, tampered, store_dir,
                    depIdx, bind_dir, dep_dir, slot, mounts, parentEnv,
                    childEnv, spawned, hashed >>

\* What the source of a resource may hold when it is read: the bytes the
\* resource's hash was made of, or others.
SourceBytes == { SrcBytes, SrcBytesAltered }

\* A write of bytes to build_dir/name that fails leaves no file or an empty
\* one.
FailedWrite(files, name) == { files, (name :> <<>>) @@ files }

\* Faulty variant of FetchResource: every URL is fetched, whatever its
\* scheme.
FetchResource_AnyScheme ==
    /\ pc = "fetch"
    /\ LET r == self_resources(cxt)[srcIdx]
           next == IF srcIdx = Len(self_resources(cxt)) THEN "unshare" ELSE "fetch"
       IN  \E v \in SourceBytes :
              IF Digest(v) # r.hash
              THEN /\ buildRoot' = buildRoot /\ srcIdx' = srcIdx
                   /\ Return([Res("SetupError", "HashError") EXCEPT !.name = r.name])
                   /\ Logged("verify", "BadHash")
                   /\ Fault
              ELSE /\ buildRoot' = [buildRoot EXCEPT !.files = (r.name :> v) @@ @]
                   /\ srcIdx' = srcIdx + 1
                   /\ Continue(next)
                   /\ log' = log \o << [op |-> "verify", out |-> "ok"],
                                       [op |-> "write", out |-> "ok"] >>
                   /\ NoFault
    /\ UNCHANGED << walk, peer, now, arg, ret, cxt, storeArg, euidRoot, runNo, tampered, store_dir,
                    depIdx, bind_dir, dep_dir, slot, mounts, parentEnv,
                    childEnv, spawned, hashed >>

\* Faulty variant of FetchResource: the file is written to the build root
\* first and verified afterwards.
FetchResource_WritesFirst ==
    /\ pc = "fetch"
    /\ LET r == self_resources(cxt)[srcIdx]
           next == IF srcIdx = Len(self_resources(cxt)) THEN "unshare" ELSE "fetch"
       IN  \/ /\ r.scheme \notin {"file", "http", "https"}
              /\ buildRoot' = buildRoot /\ srcIdx' = srcIdx
              /\ Return([Res("SetupError", "Unrecognized") EXCEPT
                            !.name = r.name, !.scheme = r.scheme])
              /\ Logged("fetch", "Unrecognized")
              /\ NoFault
           \/ /\ r.scheme \in {"file", "http", "https"}
              /\ \E v \in SourceBytes :
                    /\ buildRoot' = [buildRoot EXCEPT !.files = (r.name :> v) @@ @]
                    /\ IF Digest(v) = r.hash
                       THEN /\ srcIdx' = srcIdx + 1
                            /\ Continue(next)
                            /\ log' = log \o << [op |-> "write", out |-> "ok"],
                                                [op |-> "verify", out |-> "ok"] >>
                            /\ NoFault
                       ELSE /\ srcIdx' = srcIdx
                            /\ Return([Res("SetupError", "HashError") EXCEPT !.name = r.name])
                            /\ log' = log \o << [op |-> "write", out |-> "ok"],
                                                [op |-> "verify", out |-> "BadHash"] >>
                            /\ Fault
    /\ UNCHANGED << walk, peer, now, arg, ret, cxt, storeArg, euidRoot, runNo, tampered, store_dir,
                    depIdx, bind_dir, dep_dir, slot, mounts, parentEnv,
                    childEnv, spawned, hashed >>

\* Faulty variant of FetchResource: a resource whose bytes do not match its
\* hash is skipped and the loop goes on with the next one.
FetchResource_SkipsBadHash ==
    /\ pc = "fetch"
    /\ LET r == self_resources(cxt)[srcIdx]
           next == IF srcIdx = Len(self_resources(cxt)) THEN "unshare" ELSE "fetch"
       IN  \/ /\ r.scheme \notin {"file", "http", "https"}
              /\ buildRoot' = buildRoot /\ srcIdx' = srcIdx
              /\ Return([Res("SetupError", "Unrecognized") EXCEPT
                            !.name = r.name, !.scheme = r.scheme])
              /\ Logged("fetch", "Unrecognized")
              /\ NoFault
           \/ /\ r.scheme \in {"file", "http", "https"}
              /\ buildRoot' = buildRoot /\ srcIdx' = srcIdx
              /\ \E cause \in (IF r.scheme = "file" THEN {"IOError"}
                               ELSE {"HTTPError", "HTTPStatus"}) :
                    Return(Res("SetupError", cause))
              /\ Logged("fetch", "err")
              /\ Fault
           \/ /\ r.scheme \in {"file", "http", "https"}
              /\ buildRoot' = buildRoot /\ srcIdx' = srcIdx
              /\ Return([Res("SetupError", "HashError") EXCEPT !.name = r.name])
              /\ Logged("verify", "err")
              /\ Fault
           \/ /\ r.scheme \in {"file", "http", "https"}
              /\ \E v \in SourceBytes :
                    IF Digest(v) # r.hash
                    THEN /\ buildRoot' = buildRoot /\ srcIdx' = srcIdx + 1
                         /\ Continue(next)
                         /\ Logged("verify", "BadHash")
                         /\ Fault
                    ELSE \/ \E w \in (IF r.scheme = "file" THEN SourceBytes ELSE {v}) :
                               /\ buildRoot' = [buildRoot EXCEPT
                                                   !.files = (r.name :> w) @@ @]
                               /\ srcIdx' = srcIdx + 1
                               /\ Continue(next)
                               /\ log' = log \o << [op |-> "verify", out |-> "ok"],
                                                   [op |-> "write", out |-> "ok"] >>
                               /\ NoFault
                         \/ \E files \in FailedWrite(buildRoot.files, r.name) :
                               /\ buildRoot' = [buildRoot EXCEPT !.files = files]
                               /\ srcIdx' = srcIdx
                               /\ Return(Res("SetupError", "IOError"))
                               /\ log' = log \o << [op |-> "verify", out |-> "ok"],
                                                   [op |-> "write", out |-> "err"] >>
                               /\ Fault
    /\ UNCHANGED << walk, peer, now, arg, ret, cxt, storeArg, euidRoot, runNo, tampered, store_dir,
                    depIdx, bind_dir, dep_dir, slot, mounts, parentEnv,
                    childEnv, spawned, hashed >>

\* One iteration of the loop over resources(): Resource::fetch_resource,
\* which dispatches on the URL scheme (the http schemes are those of a build
\* with the minreq features).  fetch_file opens the source, feeds it to the
\* hasher, and then copies the file at the source path to build_dir/name;
\* fetch_http verifies the body of the response and writes that body.
FetchResource ==
    /\ pc = "fetch"
    /\ LET r == self_resources(cxt)[srcIdx]
           next == IF srcIdx = Len(self_resources(cxt)) THEN "unshare" ELSE "fetch"
       IN  \/ /\ r.scheme \notin {"file", "http", "https"}
              /\ buildRoot' = buildRoot /\ srcIdx' = srcIdx
              /\ Return([Res("SetupError", "Unrecognized") EXCEPT
                            !.name = r.name, !.scheme = r.scheme])
              /\ Logged("fetch", "Unrecognized")
              /\ NoFault
           \/ /\ r.scheme \in {"file", "http", "https"}
              /\ buildRoot' = buildRoot /\ srcIdx' = srcIdx
              /\ \E cause \in (IF r.scheme = "file" THEN {"IOError"}
                               ELSE {"HTTPError", "HTTPStatus"}) :
                    Return(Res("SetupError", cause))
              /\ Logged("fetch", "err")
              /\ Fault
           \/ /\ r.scheme \in {"file", "http", "https"}
              /\ buildRoot' = buildRoot /\ srcIdx' = srcIdx
              /\ Return([Res("SetupError", "HashError") EXCEPT !.name = r.name])
              /\ Logged("verify", "err")
              /\ Fault
           \/ /\ r.scheme \in {"file", "http", "https"}
              /\ \E v \in SourceBytes :
                    IF Digest(v) # r.hash
                    THEN /\ buildRoot' = buildRoot /\ srcIdx' = srcIdx
                         /\ Return([Res("SetupError", "HashError") EXCEPT
                                       !.name = r.name, !.expected = r.hash,
                                       !.found = Digest(v)])
                         /\ Logged("verify", "BadHash")
                         /\ Fault
                    ELSE \/ \E w \in (IF r.scheme = "file" THEN SourceBytes ELSE {v}) :
                               /\ buildRoot' = [buildRoot EXCEPT
                                                   !.files = (r.name :> w) @@ @]
                               /\ srcIdx' = srcIdx + 1
                               /\ Continue(next)
                               /\ log' = log \o << [op |-> "verify", out |-> "ok"],
                                                   [op |-> "write", out |-> "ok"] >>
                               /\ NoFault
                         \/ \E files \in FailedWrite(buildRoot.files, r.name) :
                               /\ buildRoot' = [buildRoot EXCEPT !.files = files]
                               /\ srcIdx' = srcIdx
                               /\ Return(Res("SetupError", "IOError"))
                               /\ log' = log \o << [op |-> "verify", out |-> "ok"],
                                                   [op |-> "write", out |-> "err"] >>
                               /\ Fault
    /\ UNCHANGED << walk, peer, now, arg, ret, cxt, storeArg, euidRoot, runNo, tampered, store_dir,
                    depIdx, bind_dir, dep_dir, slot, mounts, parentEnv,
                    childEnv, spawned, hashed >>

\* namespace::setup_new_namespace, the unshare call.
Unshare ==
    /\ pc = "unshare"
    /\ \/ /\ Continue("uid_map")
          /\ Logged("unshare", "ok")
          /\ NoFault
       \/ /\ Return(Res("SetupError", "NewError"))
          /\ Logged("unshare", "err")
          /\ Fault
    /\ UNCHANGED << walk, peer, now, arg, ret, cxt, storeArg, euidRoot, runNo, tampered, store_dir,
                    srcIdx, depIdx, bind_dir, dep_dir, buildRoot, slot, mounts,
                    parentEnv, childEnv, spawned, hashed >>

\* Faulty variant of WriteUidMap: a failed write of the uid map is ignored.
WriteUidMap_IgnoresError ==
    /\ pc = "uid_map"
    /\ \/ /\ Continue(IF self_dependencies(cxt) = <<>> THEN AfterPrepare ELSE "mount_deps")
          /\ Logged("uid_map", "ok")
          /\ NoFault
       \/ /\ Continue(IF self_dependencies(cxt) = <<>> THEN AfterPrepare ELSE "mount_deps")
          /\ Logged("uid_map", "err")
          /\ Fault
    /\ depIdx' = 1
    /\ bind_dir' = build_dir
    /\ dep_dir' = store_dir
    /\ UNCHANGED << walk, peer, now, arg, ret, cxt, storeArg, euidRoot, runNo, tampered, store_dir,
                    srcIdx, buildRoot, slot, mounts, parentEnv, childEnv,
                    spawned, hashed >>

\* namespace::setup_new_namespace, the write of /proc/self/uid_map; on
\* success mount_dep_dirs starts with its two path buffers.
WriteUidMap ==
    /\ pc = "uid_map"
    /\ \/ /\ Continue(IF self_dependencies(cxt) = <<>> THEN AfterPrepare ELSE "mount_deps")
          /\ Logged("uid_map", "ok")
          /\ NoFault
       \/ /\ Return(Res("SetupError", "UMapError"))
          /\ Logged("uid_map", "err")
          /\ Fault
    /\ depIdx' = 1
    /\ bind_dir' = build_dir
    /\ dep_dir' = store_dir
    /\ UNCHANGED << walk, peer, now, arg, ret, cxt, storeArg, euidRoot, runNo, tampered, store_dir,
                    srcIdx, buildRoot, slot, mounts, parentEnv, childEnv,
                    spawned, hashed >>

\* One iteration of the loop of namespace::mount_dep_dirs.
MountDep ==
    /\ pc = "mount_deps"
    /\ LET dep == self_dependencies(cxt)[depIdx]
           src == PathJoin(dep_dir, PathOfText(pkg_ident(dep)))
           dst == PathJoin(bind_dir, StripRoot(src))
           next == IF depIdx = Len(self_dependencies(cxt)) THEN AfterPrepare ELSE "mount_deps"
       IN  IF ~ StripRootOk(src)
           THEN /\ Return(Res("Panic", "strip_prefix"))
                /\ Logged("mount_dep", "panic")
                /\ NoFault
                /\ UNCHANGED << mounts, depIdx, bind_dir, dep_dir >>
           ELSE \/ /\ Return([Res("SetupError", "MkDirError") EXCEPT
                                  !.target_dir = dst])
                   /\ Logged("mount_dep", "err")
                   /\ Fault
                   /\ UNCHANGED << mounts, depIdx, bind_dir, dep_dir >>
                \/ /\ Return([Res("SetupError", "BindMountError") EXCEPT
                                  !.source_dir = src, !.target_dir = dst])
                   /\ Logged("mount_dep", "err")
                   /\ Fault
                   /\ UNCHANGED << mounts, depIdx, bind_dir, dep_dir >>
                \/ /\ mounts' = Append(mounts, [src |-> src, dst |-> dst])
                   /\ bind_dir' = PathJoin(dst, build_dir)
                   /\ dep_dir' = PathPop(src)
                   /\ depIdx' = depIdx + 1
                   /\ Continue(next)
                   /\ Logged("mount_dep", "ok")
                   /\ NoFault
    /\ UNCHANGED << walk, peer, now, arg, ret, cxt, storeArg, euidRoot, runNo, tampered, store_dir,
                    srcIdx, buildRoot, slot, parentEnv, childEnv, spawned,
                    hashed >>

\* Faulty variant of CreateOutdir: an existing slot is built over.
CreateOutdir_Rebuilds ==
    /\ pc = "mkout"
    /\ \/ /\ slot.exists
          /\ slot' = slot
          /\ Continue("mount_out")
          /\ Logged("create_outdir", "EEXIST")
          /\ NoFault
       \/ /\ ~ slot.exists
          /\ slot' = EmptySlot
          /\ Continue("mount_out")
          /\ Logged("create_outdir", "ok")
          /\ NoFault
       \/ /\ ~ slot.exists
          /\ slot' = slot
          /\ Return(Res("SetupError", "IOError"))
          /\ Logged("create_outdir", "err")
          /\ Fault
    /\ UNCHANGED << walk, peer, now, arg, ret, cxt, storeArg, euidRoot, runNo, tampered, store_dir,
                    srcIdx, depIdx, bind_dir, dep_dir, buildRoot, mounts,
                    parentEnv, childEnv, spawned, hashed >>

\* Faulty variant of CreateOutdir: every error of the creation of the slot
\* is taken for "already installed".
CreateOutdir_RecoversAny ==
    /\ pc = "mkout"
    /\ \/ /\ slot.exists
          /\ slot' = slot
          /\ Continue("verify_reuse")
          /\ Logged("create_outdir", "EEXIST")
          /\ NoFault
       \/ /\ ~ slot.exists
          /\ slot' = EmptySlot
          /\ Continue("mount_out")
          /\ Logged("create_outdir", "ok")
          /\ NoFault
       \/ /\ ~ slot.exists
          /\ slot' = slot
          /\ Continue("verify_reuse")
          /\ Logged("create_outdir", "err")
          /\ Fault
    /\ UNCHANGED << walk, peer, now, arg, ret, cxt, storeArg, euidRoot, runNo, tampered, store_dir,
                    srcIdx, depIdx, bind_dir, dep_dir, buildRoot, mounts,
                    parentEnv, childEnv, spawned, hashed >>

\* setup_out_dir, dirs::create_outdir: EEXIST (os error 17) becomes
\* MaybeAlreadyInstalled, which exec_build answers by verifying the slot in
\* place; any other error is a SetupError.
CreateOutdir ==
    /\ pc = "mkout"
    /\ \/ /\ slot.exists
          /\ slot' = slot
          /\ Continue("verify_reuse")
          /\ Logged("create_outdir", "EEXIST")
          /\ NoFault
       \/ /\ ~ slot.exists
          /\ slot' = EmptySlot
          /\ Continue("mount_out")
          /\ Logged("create_outdir", "ok")
          /\ NoFault
       \/ /\ ~ slot.exists
          /\ slot' = slot
          /\ Return(Res("SetupError", "IOError"))
          /\ Logged("create_outdir", "err")
          /\ Fault
    /\ UNCHANGED << walk, peer, now, arg, ret, cxt, storeArg, euidRoot, runNo, tampered, store_dir,
                    srcIdx, depIdx, bind_dir, dep_dir, buildRoot, mounts,
                    parentEnv, childEnv, spawned, hashed >>

\* setup_out_dir, namespace::mount_out_dir.
MountOutDir ==
    /\ pc = "mount_out"
    /\ LET dst == PathJoin(build_dir, StripRoot(out_dir))
       IN  IF ~ StripRootOk(out_dir)
           THEN /\ Return(Res("Panic", "strip_prefix"))
                /\ Logged("mount_out", "panic")
                /\ NoFault
                /\ mounts' = mounts
           ELSE \/ /\ Return([Res("SetupError", "MkDirError") EXCEPT
                                  !.target_dir = dst])
                   /\ Logged("mount_out", "err")
                   /\ Fault
                   /\ mounts' = mounts
                \/ /\ Return([Res("SetupError", "BindMountError") EXCEPT
                                  !.source_dir = out_dir, !.target_dir = dst])
                   /\ Logged("mount_out", "err")
                   /\ Fault
                   /\ mounts' = mounts
                \/ /\ mounts' = Append(mounts, [src |-> out_dir, dst |-> dst])
                   /\ Continue("exec")
                   /\ Logged("mount_out", "ok")
                   /\ NoFault
    /\ UNCHANGED << walk, peer, now, arg, ret, cxt, storeArg, euidRoot, runNo, tampered, store_dir,
                    srcIdx, depIdx, bind_dir, dep_dir, buildRoot, slot,
                    parentEnv, childEnv, spawned, hashed >>

\* Faulty variant of ExecBuildCmd: the exit status is not looked at.
ExecBuildCmd_IgnoresStatus ==
    /\ pc = "exec"
    /\ spawned' = spawned + 1
    /\ \/ /\ Return(Res("ExecBuildCmdError", "io"))
          /\ Logged("spawn", "err")
          /\ Fault
          /\ UNCHANGED << slot, childEnv >>
       \/ \E tree \in OutTrees, st \in ExitStatuses :
             /\ childEnv' = CaptureEnv(BuildCmdEnv(cxt, store_dir, out_dir), parentEnv)
             /\ slot' = [slot EXCEPT !.children = tree]
             /\ Logged("spawn", st)
             /\ NoFault
             /\ Continue("verify")
    /\ UNCHANGED << walk, peer, now, arg, ret, cxt, storeArg, euidRoot, runNo, tampered, store_dir,
                    srcIdx, depIdx, bind_dir, dep_dir, buildRoot, mounts,
                    parentEnv, hashed >>

\* exec_build_cmd: the command is built, the child chroots into build_dir
\* and runs; child.status() waits for it.  The child writes its output into
\* the slot through the bind mount.
ExecBuildCmd ==
    /\ pc = "exec"
    /\ spawned' = spawned + 1
    /\ \/ /\ Return(Res("ExecBuildCmdError", "io"))
          /\ Logged("spawn", "err")
          /\ Fault
          /\ UNCHANGED << slot, childEnv >>
       \/ \E tree \in OutTrees, st \in ExitStatuses :
             /\ childEnv' = CaptureEnv(BuildCmdEnv(cxt, store_dir, out_dir), parentEnv)
             /\ slot' = [slot EXCEPT !.children = tree]
             /\ Logged("spawn", st)
             /\ NoFault
             /\ IF st = "exit0"
                THEN Continue("verify")
                ELSE Return([Res("BuildCmdError", "") EXCEPT !.status = st])
    /\ UNCHANGED << walk, peer, now, arg, ret, cxt, storeArg, euidRoot, runNo, tampered, store_dir,
                    srcIdx, depIdx, bind_dir, dep_dir, buildRoot, mounts,
                    parentEnv, hashed >>

\* What fs::remove_dir_all(out_dir) can do to the slot: refuse (EACCES),
\* remove it, fail before removing anything, or fail after emptying it.
RemoveOutcomes(s, root) ==
    IF ~ RemovalPermitted(s, root)
    THEN { [slot |-> s, err |-> "EACCES", fault |-> FALSE] }
    ELSE { [slot |-> NoSlot, err |-> "", fault |-> FALSE],
           [slot |-> s, err |-> "io", fault |-> TRUE],
           [slot |-> [s EXCEPT !.children = <<>>], err |-> "io", fault |-> TRUE] }

\* Faulty variant of VerifyBuildHash: a slot whose hash differs is left in
\* the store.
VerifyBuildHash_KeepsSlot ==
    /\ pc \in {"verify", "verify_reuse"}
    /\ hashed' = [done |-> TRUE, children |-> slot.children]
    /\ LET expected == cxt.pkg_info.hash
           found == DirHash(slot.children)
       IN  \/ \E o \in RemoveOutcomes(slot, euidRoot) :
                 /\ slot' = o.slot
                 /\ Return([Res("HashError", "IOError") EXCEPT !.teardown_err = o.err])
                 /\ log' = log \o << [op |-> "hash", out |-> "err"],
                                     [op |-> "remove_slot", out |-> o.err] >>
                 /\ Fault
           \/ /\ found # expected
              /\ \E o \in { [slot |-> slot, err |-> "", fault |-> FALSE] } :
                    /\ slot' = o.slot
                    /\ Return([Res("HashError", "BadHash") EXCEPT
                                  !.expected = expected, !.found = found,
                                  !.teardown_err = o.err])
                    /\ log' = log \o << [op |-> "hash", out |-> "mismatch"],
                                        [op |-> "remove_slot", out |-> o.err] >>
                    /\ faulted' = (faulted \/ o.fault)
           \/ /\ found = expected
              /\ slot' = slot
              /\ IF pc = "verify" THEN Continue("seal") ELSE Return(Res("Ok", ""))
              /\ Logged("hash", "match")
              /\ NoFault
    /\ UNCHANGED << walk, peer, now, arg, ret, cxt, storeArg, euidRoot, runNo, tampered, store_dir,
                    srcIdx, depIdx, bind_dir, dep_dir, buildRoot, mounts,
                    parentEnv, childEnv, spawned >>

\* Faulty variant of VerifyBuildHash: an error of the slot's removal is
\* returned in place of the hash error.
VerifyBuildHash_RemovalErrorWins ==
    /\ pc \in {"verify", "verify_reuse"}
    /\ hashed' = [done |-> TRUE, children |-> slot.children]
    /\ LET expected == cxt.pkg_info.hash
           found == DirHash(slot.children)
       IN  \/ \E o \in RemoveOutcomes(slot, euidRoot) :
                 /\ slot' = o.slot
                 /\ Return([Res("HashError", "IOError") EXCEPT !.teardown_err = o.err])
                 /\ log' = log \o << [op |-> "hash", out |-> "err"],
                                     [op |-> "remove_slot", out |-> o.err] >>
                 /\ Fault
           \/ /\ found # expected
              /\ \E o \in RemoveOutcomes(slot, euidRoot) :
                    /\ slot' = o.slot
                    /\ Return(IF o.err # ""
                              THEN Res("TeardownError", "IOError")
                              ELSE [Res("HashError", "BadHash") EXCEPT
                                       !.expected = expected, !.found = found])
                    /\ log' = log \o << [op |-> "hash", out |-> "mismatch"],
                                        [op |-> "remove_slot", out |-> o.err] >>
                    /\ faulted' = (faulted \/ o.fault)
           \/ /\ found = expected
              /\ slot' = slot
              /\ IF pc = "verify" THEN Continue("seal") ELSE Return(Res("Ok", ""))
              /\ Logged("hash", "match")
              /\ NoFault
    /\ UNCHANGED << walk, peer, now, arg, ret, cxt, storeArg, euidRoot, runNo, tampered, store_dir,
                    srcIdx, depIdx, bind_dir, dep_dir, buildRoot, mounts,
                    parentEnv, childEnv, spawned >>

\* verify_build_hash, called on the fresh path ("verify") and on the reuse
\* path ("verify_reuse"): ItemHash::verify_hash_from_fn over
\* calculate_directory_hash; on any error the slot is removed and the
\* removal's error, if any, travels in teardown_err.
VerifyBuildHash ==
    /\ pc \in {"verify", "verify_reuse"}
    /\ hashed' = [done |-> TRUE, children |-> slot.children]
    /\ LET expected == cxt.pkg_info.hash
           found == DirHash(slot.children)
       IN  \/ \E o \in RemoveOutcomes(slot, euidRoot) :
                 /\ slot' = o.slot
                 /\ Return([Res("HashError", "IOError") EXCEPT !.teardown_err = o.err])
                 /\ log' = log \o << [op |-> "hash", out |-> "err"],
                                     [op |-> "remove_slot", out |-> o.err] >>
                 /\ Fault
           \/ /\ found # expected
              /\ \E o \in RemoveOutcomes(slot, euidRoot) :
                    /\ slot' = o.slot
                    /\ Return([Res("HashError", "BadHash") EXCEPT
                                  !.expected = expected, !.found = found,
                                  !.teardown_err = o.err])
                    /\ log' = log \o << [op |-> "hash", out |-> "mismatch"],
                                        [op |-> "remove_slot", out |-> o.err] >>
                    /\ faulted' = (faulted \/ o.fault)
           \/ /\ found = expected
              /\ slot' = slot
              /\ IF pc = "verify" THEN Continue("seal") ELSE Return(Res("Ok", ""))
              /\ Logged("hash", "match")
              /\ NoFault
    /\ UNCHANGED << walk, peer, now, arg, ret, cxt, storeArg, euidRoot, runNo, tampered, store_dir,
                    srcIdx, depIdx, bind_dir, dep_dir, buildRoot, mounts,
                    parentEnv, childEnv, spawned >>

\* Faulty variant of Seal: a slot that could not be sealed is removed, as an
\* output that failed verification is.
Seal_RemovesOnError ==
    /\ pc = "seal"
    /\ \/ /\ slot' = SetReadonlyAll(slot, TRUE)
          /\ Continue("umount_out")
          /\ Logged("seal", "ok")
          /\ NoFault
       \/ \E k \in 0..(SlotEntries(slot) - 1) :
             /\ slot' = NoSlot
             /\ Return(Res("TeardownError", "IOError"))
             /\ Logged("seal", "err")
             /\ Fault
    /\ UNCHANGED << walk, peer, now, arg, ret, cxt, storeArg, euidRoot, runNo, tampered, store_dir,
                    srcIdx, depIdx, bind_dir, dep_dir, buildRoot, mounts,
                    parentEnv, childEnv, spawned, hashed >>

\* cleanup_post_build: dirs::set_readonly_all(out_dir, true).
Seal ==
    /\ pc = "seal"
    /\ \/ /\ slot' = SetReadonlyAll(slot, TRUE)
          /\ Continue("umount_out")
          /\ Logged("seal", "ok")
          /\ NoFault
       \/ \E k \in 0..(SlotEntries(slot) - 1) :
             /\ slot' = SetReadonlyUpTo(slot, TRUE, k)
             /\ Return(Res("TeardownError", "IOError"))
             /\ Logged("seal", "err")
             /\ Fault
    /\ UNCHANGED << walk, peer, now, arg, ret, cxt, storeArg, euidRoot, runNo, tampered, store_dir,
                    srcIdx, depIdx, bind_dir, dep_dir, buildRoot, mounts,
                    parentEnv, childEnv, spawned, hashed >>

\* umount(target): the newest mount on target leaves the mount table.
RECURSIVE WithoutLast(_, _)
WithoutLast(ms, target) ==
    IF ms = <<>> THEN <<>>
    ELSE IF ms[Len(ms)].dst = target THEN SubSeq(ms, 1, Len(ms) - 1)
    ELSE Append(WithoutLast(SubSeq(ms, 1, Len(ms) - 1), target), ms[Len(ms)])

Mounted(ms, target) == \E i \in 1..Len(ms) : ms[i].dst = target

\* cleanup_post_build: namespace::umount_out_dir; on success
\* umount_dep_dirs starts with its two path buffers.
UmountOutDir ==
    /\ pc = "umount_out"
    /\ LET dst == PathJoin(build_dir, StripRoot(out_dir))
       IN  IF ~ StripRootOk(out_dir)
           THEN /\ Return(Res("Panic", "strip_prefix"))
                /\ Logged("umount_out", "panic")
                /\ NoFault
                /\ mounts' = mounts
           ELSE \/ /\ Mounted(mounts, dst)
                   /\ mounts' = WithoutLast(mounts, dst)
                   /\ Continue(IF self_dependencies(cxt) = <<>> THEN "rm_root"
                               ELSE "umount_deps")
                   /\ Logged("umount_out", "ok")
                   /\ NoFault
                \/ /\ mounts' = mounts
                   /\ Return([Res("TeardownError", "BindUMountError") EXCEPT
                                  !.target_dir = dst])
                   /\ Logged("umount_out", "err")
                   /\ faulted' = (faulted \/ Mounted(mounts, dst))
    /\ depIdx' = 1
    /\ bind_dir' = build_dir
    /\ dep_dir' = store_dir
    /\ UNCHANGED << walk, peer, now, arg, ret, cxt, storeArg, euidRoot, runNo, tampered, store_dir,
                    srcIdx, buildRoot, slot, parentEnv, childEnv, spawned,
                    hashed >>

\* Faulty variant of UmountDep: the error of a failing umount names the
\* store directory of the dependency, not the directory that was unmounted.
UmountDep_ReportsSource ==
    /\ pc = "umount_deps"
    /\ LET dep == self_dependencies(cxt)[depIdx]
           src == PathJoin(dep_dir, PathOfText(pkg_ident(dep)))
           dst == PathJoin(bind_dir, StripRoot(src))
           next == IF depIdx = Len(self_dependencies(cxt)) THEN "rm_root" ELSE "umount_deps"
       IN  IF ~ StripRootOk(src)
           THEN /\ Return(Res("Panic", "strip_prefix"))
                /\ Logged("umount_dep", "panic")
                /\ NoFault
                /\ UNCHANGED << mounts, depIdx, bind_dir, dep_dir >>
           ELSE \/ /\ Mounted(mounts, dst)
                   /\ mounts' = WithoutLast(mounts, dst)
                   /\ bind_dir' = PathJoin(dst, build_dir)
                   /\ dep_dir' = PathPop(src)
                   /\ depIdx' = depIdx + 1
                   /\ Continue(next)
                   /\ Logged("umount_dep", "ok")
                   /\ NoFault
                \/ /\ Return([Res("TeardownError", "BindUMountError") EXCEPT
                                  !.target_dir = src])
                   /\ Logged("umount_dep", "err")
                   /\ faulted' = (faulted \/ Mounted(mounts, dst))
                   /\ UNCHANGED << mounts, depIdx, bind_dir, dep_dir >>
    /\ UNCHANGED << walk, peer, now, arg, ret, cxt, storeArg, euidRoot, runNo, tampered, store_dir,
                    srcIdx, buildRoot, slot, parentEnv, childEnv, spawned,
                    hashed >>

\* Faulty variant of UmountDep: the error of a failing umount is dropped
\* and the loop goes on.
UmountDep_IgnoresError ==
    /\ pc = "umount_deps"
    /\ LET dep == self_dependencies(cxt)[depIdx]
           src == PathJoin(dep_dir, PathOfText(pkg_ident(dep)))
           dst == PathJoin(bind_dir, StripRoot(src))
           next == IF depIdx = Len(self_dependencies(cxt)) THEN "rm_root" ELSE "umount_deps"
       IN  IF ~ StripRootOk(src)
           THEN /\ Return(Res("Panic", "strip_prefix"))
                /\ Logged("umount_dep", "panic")
                /\ NoFault
                /\ UNCHANGED << mounts, depIdx, bind_dir, dep_dir >>
           ELSE \/ /\ Mounted(mounts, dst)
                   /\ mounts' = WithoutLast(mounts, dst)
                   /\ bind_dir' = PathJoin(dst, build_dir)
                   /\ dep_dir' = PathPop(src)
                   /\ depIdx' = depIdx + 1
                   /\ Continue(next)
                   /\ Logged("umount_dep", "ok")
                   /\ NoFault
                \/ /\ mounts' = mounts
                   /\ bind_dir' = PathJoin(dst, build_dir)
                   /\ dep_dir' = PathPop(src)
                   /\ depIdx' = depIdx + 1
                   /\ Continue(next)
                   /\ Logged("umount_dep", "err")
                   /\ faulted' = (faulted \/ Mounted(mounts, dst))
    /\ UNCHANGED << walk, peer, now, arg, ret, cxt, storeArg, euidRoot, runNo, tampered, store_dir,
                    srcIdx, buildRoot, slot, parentEnv, childEnv, spawned,
                    hashed >>

\* One iteration of the loop of namespace::umount_dep_dirs, which walks the
\* dependencies in the order they were mounted.
UmountDep ==
    /\ pc = "umount_deps"
    /\ LET dep == self_dependencies(cxt)[depIdx]
           src == PathJoin(dep_dir, PathOfText(pkg_ident(dep)))
           dst == PathJoin(bind_dir, StripRoot(src))
           next == IF depIdx = Len(self_dependencies(cxt)) THEN "rm_root" ELSE "umount_deps"
       IN  IF ~ StripRootOk(src)
           THEN /\ Return(Res("Panic", "strip_prefix"))
                /\ Logged("umount_dep", "panic")
                /\ NoFault
                /\ UNCHANGED << mounts, depIdx, bind_dir, dep_dir >>
           ELSE \/ /\ Mounted(mounts, dst)
                   /\ mounts' = WithoutLast(mounts, dst)
                   /\ bind_dir' = PathJoin(dst, build_dir)
                   /\ dep_dir' = PathPop(src)
                   /\ depIdx' = depIdx + 1
                   /\ Continue(next)
                   /\ Logged("umount_dep", "ok")
                   /\ NoFault
                \/ /\ Return([Res("TeardownError", "BindUMountError") EXCEPT
                                  !.target_dir = dst])
                   /\ Logged("umount_dep", "err")
                   /\ faulted' = (faulted \/ Mounted(mounts, dst))
                   /\ UNCHANGED << mounts, depIdx, bind_dir, dep_dir >>
    /\ UNCHANGED << walk, peer, now, arg, ret, cxt, storeArg, euidRoot, runNo, tampered, store_dir,
                    srcIdx, buildRoot, slot, parentEnv, childEnv, spawned,
                    hashed >>

\* cleanup_post_build: fs::remove_dir_all(build_dir), then Ok(pkg_info).
RemoveBuildRoot ==
    /\ pc = "rm_root"
    /\ \/ /\ buildRoot' = NoRoot
          /\ Return(Res("Ok", ""))
          /\ Logged("remove_build_root", "ok")
          /\ NoFault
       \/ /\ buildRoot' = buildRoot
          /\ Return(Res("TeardownError", "IOError"))
          /\ Logged("remove_build_root", "err")
          /\ Fault
    /\ UNCHANGED << walk, peer, now, arg, ret, cxt, storeArg, euidRoot, runNo, tampered, store_dir,
                    srcIdx, depIdx, bind_dir, dep_dir, slot, mounts, parentEnv,
                    childEnv, spawned, hashed >>

(***************************************************************************)
(* enter_shell: the steps it does not share with exec_build                *)
(***************************************************************************)

\* A new process calls enter_shell(cxt, storeArg).  The name of its build
\* root is made of the clock's seconds: a run started in a later second
\* than the one before works on a path where no directory is.
StartShell ==
    /\ pc \in {"idle", "done"}
    /\ runNo < MaxShellRuns
    /\ runNo' = runNo + 1
    /\ \E secs \in {now, now + 1} :
          /\ now' = secs
          /\ buildRoot' = IF secs = now THEN buildRoot ELSE NoRoot
    /\ parentEnv' \in ParentEnvs
    /\ pc' = "canon"
    /\ store_dir' = NoPath
    /\ srcIdx' = 1
    /\ depIdx' = 1
    /\ bind_dir' = NoPath
    /\ dep_dir' = NoPath
    /\ mounts' = <<>>
    /\ childEnv' = NoVars
    /\ spawned' = 0
    /\ hashed' = NotHashed
    /\ result' = NoResult
    /\ log' = <<>>
    /\ faulted' = FALSE
    /\ UNCHANGED << walk, peer, arg, ret, cxt, storeArg, euidRoot, results, tampered, slot >>

\* Faulty variant of ExecShellCmd: a shell that does not exit with status
\* zero makes enter_shell return at once.
ExecShellCmd_ChecksStatus ==
    /\ pc = "exec_shell"
    /\ spawned' = spawned + 1
    /\ \/ /\ Return(Res("ExecCmdError", "io"))
          /\ Logged("spawn", "err")
          /\ Fault
          /\ UNCHANGED << childEnv, depIdx, bind_dir, dep_dir >>
       \/ \E st \in ExitStatuses :
             /\ childEnv' = CaptureEnv(ShellCmdEnv(cxt, store_dir), parentEnv)
             /\ Logged("spawn", st)
             /\ NoFault
             /\ depIdx' = 1
             /\ bind_dir' = build_dir
             /\ dep_dir' = store_dir
             /\ IF st # "exit0"
                THEN Return([Res("ExecCmdError", "") EXCEPT !.status = st])
                ELSE Continue(IF shell_dependencies(cxt) = <<>> THEN "rm_root"
                              ELSE "umount_deps")
    /\ UNCHANGED << walk, peer, now, arg, ret, cxt, storeArg, euidRoot, runNo, tampered, store_dir,
                    srcIdx, buildRoot, slot, mounts, parentEnv, hashed >>

\* exec_shell_cmd: the command is built, the child chroots into the build
\* root and runs; child.status() waits for it and its exit status is
\* dropped.  Then teardown_shell starts umount_dep_dirs with its two path
\* buffers.
ExecShellCmd ==
    /\ pc = "exec_shell"
    /\ spawned' = spawned + 1
    /\ \/ /\ Return(Res("ExecCmdError", "io"))
          /\ Logged("spawn", "err")
          /\ Fault
          /\ UNCHANGED << childEnv, depIdx, bind_dir, dep_dir >>
       \/ \E st \in ExitStatuses :
             /\ childEnv' = CaptureEnv(ShellCmdEnv(cxt, store_dir), parentEnv)
             /\ Logged("spawn", st)
             /\ NoFault
             /\ depIdx' = 1
             /\ bind_dir' = build_dir
             /\ dep_dir' = store_dir
             /\ Continue(IF shell_dependencies(cxt) = <<>> THEN "rm_root"
                         ELSE "umount_deps")
    /\ UNCHANGED << walk, peer, now, arg, ret, cxt, storeArg, euidRoot, runNo, tampered, store_dir,
                    srcIdx, buildRoot, slot, mounts, parentEnv, hashed >>

Next ==
    \/ StartRun
    \/ Tamper
    \/ Canonicalize
    \/ CreateContextDir
    \/ FetchResource
    \/ Unshare
    \/ WriteUidMap
    \/ MountDep
    \/ CreateOutdir
    \/ MountOutDir
    \/ ExecBuildCmd
    \/ VerifyBuildHash
    \/ Seal
    \/ UmountOutDir
    \/ UmountDep
    \/ RemoveBuildRoot

Spec == Init /\ [][Next]_vars

\* The state before the first call of enter_shell.
InitShell ==
    /\ cxt \in ShellConfigs
    /\ storeArg \in StoreArgs
    /\ euidRoot \in BOOLEAN
    /\ runNo = 0
    /\ results = <<>>
    /\ tampered = FALSE
    /\ pc = "idle"
    /\ store_dir = NoPath
    /\ srcIdx = 1
    /\ depIdx = 1
    /\ bind_dir = NoPath
    /\ dep_dir = NoPath
    /\ buildRoot = NoRoot
    /\ slot = NoSlot
    /\ mounts = <<>>
    /\ parentEnv = NoVars
    /\ childEnv = NoVars
    /\ spawned = 0
    /\ hashed = NotHashed
    /\ result = NoResult
    /\ log = <<>>
    /\ faulted = FALSE
    /\ now = 0
    /\ arg = NoCall
    /\ ret = <<>>
    /\ peer = NoPeer
    /\ walk = NoWalk

\* enter_shell: prepare_context_dir, exec_shell_cmd, teardown_shell.
NextShell ==
    \/ StartShell
    \/ Canonicalize
    \/ CreateContextDir
    \/ FetchResource
    \/ Unshare
    \/ WriteUidMap
    \/ MountDep
    \/ ExecShellCmd
    \/ UmountDep
    \/ RemoveBuildRoot

SpecShell == InitShell /\ [][NextShell]_vars

(***************************************************************************)
(* Two exec_build processes on the same package, store and temp directory  *)
(***************************************************************************)

\* Number of runs the first process starts beside the second one.
MaxPairRuns == 2

\* What a step of the second process leaves alone: the first process's own
\* state.  The build root and the slot are the directories both work on.
ownVars ==
    << cxt, storeArg, euidRoot, runNo, results, tampered, pc, store_dir,
       srcIdx, depIdx, bind_dir, dep_dir, mounts, parentEnv, childEnv,
       spawned, hashed, result, log, faulted, now, arg, ret, walk >>

\* The second process's exec_build returns.
PeerReturns(kind, cause) == [peer EXCEPT !.pc = "done", !.kind = kind, !.cause = cause]

\* The files prepare_context_dir fetches into the build root.
FetchedFiles == [n \in { resources(cxt)[i].name : i \in 1..Len(resources(cxt)) } |-> SrcBytes]

\* The first process starts a run while the second one is about.
PairStartRun == runNo < MaxPairRuns /\ StartRun

\* The second process calls exec_build with the same context and the
\* absolute store path.
PeerStart ==
    /\ peer.pc = "idle"
    /\ peer' = [peer EXCEPT !.pc = "mkroot"]
    /\ UNCHANGED << buildRoot, slot, ownVars >>

\* Faulty variant of PeerPrepareContextDir: a build root that is already
\* there is used.
PeerPrepareContextDir_Reuses ==
    /\ peer.pc = "mkroot"
    /\ buildRoot' = [exists |-> TRUE, files |-> FetchedFiles]
    /\ peer' = [peer EXCEPT !.pc = "mkout", !.owns = TRUE]
    /\ UNCHANGED << slot, ownVars >>

\* prepare_context_dir of the second process: create_context_dir, which
\* fails on a directory that is there, then the fetches, the namespace and
\* the dependency mounts, any of which may fail and leave the build root.
PeerPrepareContextDir ==
    /\ peer.pc = "mkroot"
    /\ \/ /\ buildRoot.exists
          /\ buildRoot' = buildRoot
          /\ peer' = PeerReturns("SetupError", "EEXIST")
       \/ /\ ~ buildRoot.exists
          /\ buildRoot' = [exists |-> TRUE, files |-> FetchedFiles]
          /\ peer' = [peer EXCEPT !.pc = "mkout", !.owns = TRUE]
       \/ /\ ~ buildRoot.exists
          /\ \E files \in {NoFiles, FetchedFiles} :
                buildRoot' = [exists |-> TRUE, files |-> files]
          /\ peer' = [PeerReturns("SetupError", "io") EXCEPT !.owns = TRUE]
    /\ UNCHANGED << slot, ownVars >>

\* setup_out_dir of the second process.
PeerSetupOutDir ==
    /\ peer.pc = "mkout"
    /\ \/ /\ slot.exists
          /\ slot' = slot
          /\ peer' = [peer EXCEPT !.pc = "verify_reuse"]
       \/ /\ ~ slot.exists
          /\ slot' = EmptySlot
          /\ peer' = [peer EXCEPT !.pc = "exec", !.touched = TRUE]
       \/ /\ ~ slot.exists
          /\ \E s \in {NoSlot, EmptySlot} :
                /\ slot' = s
                /\ peer' = [PeerReturns("SetupError", "io") EXCEPT
                               !.touched = (s # NoSlot)]
    /\ UNCHANGED << buildRoot, ownVars >>

\* exec_build_cmd of the second process: the build command writes into the
\* slot and exits.
PeerExecBuildCmd ==
    /\ peer.pc = "exec"
    /\ \E t \in OutTrees, st \in ExitStatuses :
          /\ slot' = [slot EXCEPT !.children = t]
          /\ peer' = IF st = "exit0" THEN [peer EXCEPT !.pc = "verify"]
                     ELSE PeerReturns("BuildCmdError", st)
    /\ UNCHANGED << buildRoot, ownVars >>

\* verify_build_hash of the second process, after its build or on the slot
\* it found.
PeerVerifyBuildHash ==
    /\ peer.pc \in {"verify", "verify_reuse"}
    /\ IF DirHash(slot.children) # cxt.pkg_info.hash
       THEN \E o \in RemoveOutcomes(slot, euidRoot) :
               /\ slot' = o.slot
               /\ peer' = [PeerReturns("HashError", "BadHash") EXCEPT
                              !.touched = TRUE]
       ELSE /\ slot' = slot
            /\ peer' = IF peer.pc = "verify" THEN [peer EXCEPT !.pc = "cleanup"]
                       ELSE PeerReturns("Ok", "")
    /\ UNCHANGED << buildRoot, ownVars >>

\* cleanup_post_build of the second process: it seals the slot, unmounts,
\* and removes its build root, or fails on the way and leaves it.
PeerCleanupPostBuild ==
    /\ peer.pc = "cleanup"
    /\ slot' = SetReadonlyAll(slot, TRUE)
    /\ \/ /\ buildRoot' = NoRoot
          /\ peer' = [PeerReturns("Ok", "") EXCEPT !.owns = FALSE]
       \/ /\ buildRoot' = buildRoot
          /\ peer' = PeerReturns("TeardownError", "io")
    /\ UNCHANGED ownVars

InitPair ==
    /\ Init
    /\ cxt = CxtWithDeps
    /\ storeArg.abs
    /\ ~ euidRoot

NextPair ==
    \/ PairStartRun
    \/ Canonicalize
    \/ CreateContextDir
    \/ FetchResource
    \/ Unshare
    \/ WriteUidMap
    \/ MountDep
    \/ CreateOutdir
    \/ MountOutDir
    \/ ExecBuildCmd
    \/ VerifyBuildHash
    \/ Seal
    \/ UmountOutDir
    \/ UmountDep
    \/ RemoveBuildRoot
    \/ PeerStart
    \/ PeerPrepareContextDir
    \/ PeerSetupOutDir
    \/ PeerExecBuildCmd
    \/ PeerVerifyBuildHash
    \/ PeerCleanupPostBuild

SpecPair == InitPair /\ [][NextPair]_vars

TypeOK ==
    /\ pc \in {"idle", "canon", "mkroot", "fetch", "unshare", "uid_map",
               "mount_deps", "mkout", "mount_out", "exec", "verify",
               "verify_reuse", "seal", "umount_out", "umount_deps", "rm_root",
               "exec_shell", "done"}
    /\ runNo \in 0..MaxRuns
    /\ Len(results) <= runNo

(***************************************************************************)
(* Calls of the library's pure functions                                   *)
(***************************************************************************)

\* Blake2s::digest(b"hello_world"), the hash the unit tests give their
\* packages.
HelloWorldDigest ==
    << 51, 69, 200, 159, 88, 136, 134, 3, 252, 7, 170, 17, 43, 96, 154, 76,
       135, 183, 166, 224, 132, 226, 38, 76, 208, 93, 211, 26, 45, 201, 82, 58 >>

\* example_buildcxt of the unit tests of build_cxt.rs.
ExampleBuildCxt ==
    [pkg_info |-> add_deps(Package("example", "1.0.0", HelloWorldDigest),
                           << Package("dependency", "1.0.0", HelloWorldDigest) >>),
     build_settings |-> NoVars,
     srcs |-> <<>>,
     build_deps |-> <<>>,
     build_cmd |-> "./build.sh"]

\* A build context that names one dependency twice and one both as a
\* dependency and as a build dependency.
CxtRepeatedDeps ==
    [pkg_info |-> add_deps(Package("unhex", "0.0", DirHash(TreeGood)),
                           << Package("libc", "1", Digest(<<1>>)),
                              Package("tool", "2", Digest(<<2>>)),
                              Package("libc", "1", Digest(<<1>>)) >>),
     build_settings |-> NoVars,
     srcs |-> <<>>,
     build_deps |-> << Package("tool", "2", Digest(<<2>>)) >>,
     build_cmd |-> "/unhex"]

\* Arguments of make_path_string.
PathCalls ==
    [fn : {"make_path_string"},
     cxt : {CxtWithDeps, CxtPlain, CxtRepeatedDeps, ExampleBuildCxt},
     store : {AbsPath(<< "yafpm" >>), AbsPath(<< "root" >>),
              AbsPath(<< "var", "store" >>), AbsPath(<<>>)}]

\* The package of test_pkg_ident.
TestPkg == Package("test", "1.0.0", HelloWorldDigest)

\* Receivers of pkg_ident: packages with and without dependencies.
IdentPkgs ==
    LET bare == { Package(n, v, h) : n \in {"unhex", "a-b", "a-b-1"},
                                     v \in {"0.0", "1-0", "0"},
                                     h \in {Digest(<<1>>), Digest(<<2>>), <<0, 0>>,
                                            <<255, 255>>} }
                \cup {TestPkg}
    IN  bare \cup { add_deps(p, << TestPkg >>) : p \in bare }
             \cup { add_deps(p, << add_deps(TestPkg, << TestPkg >>), TestPkg >>) : p \in bare }

IdentCalls == [fn : {"pkg_ident"}, pkg : IdentPkgs]

\* File names, file contents and link targets of the hashed trees.
EntryNames == { <<1, 2>>, <<1, 2, 1>>, <<2, 1>>, <<3>> }
FileContents == { <<>>, <<1>>, <<2, 1>> }
LinkTargets == { <<1>>, <<2, 1>> }

\* Entries of a directory: files, symbolic links, and directories that are
\* empty, hold one entry or hold two files listed in either order.
LeafEntries(names) ==
    { FileNode(n, b) : n \in names, b \in {<<>>, <<1>>} }
    \cup { LinkNode(n, t) : n \in names, t \in {<<1>>} }
TreeEntries ==
    LeafEntries(EntryNames)
    \cup { DirNode(n, c) : n \in {<<1, 2>>, <<3>>},
                           c \in {<<>>} \cup { << l >> : l \in LeafEntries({<<2, 1>>}) }
                                \cup { << FileNode(<<2, 1>>, <<>>), FileNode(<<1, 2>>, <<>>) >>,
                                       << FileNode(<<1, 2>>, <<>>), FileNode(<<2, 1>>, <<>>) >> } }

\* What read_dir may list for the top directory: entries with distinct
\* names, in any order.
Trees ==
    { t \in UNION { [1..n -> TreeEntries] : n \in 0..MaxEntries } :
        \A i, j \in 1..Len(t) : i # j => t[i].name # t[j].name }

HashCalls == [fn : {"calculate_directory_hash"}, dir : Trees]

\* Digests and texts handed to the hash (de)serializer.
SomeBytes == { 0, 9, 10, 16, 171, 255 }
SerializeCalls == [fn : {"serialize"}, hash : [1..OutputSize -> SomeBytes]]
TextChars == { "0", "a", "F", "g" }
VisitCalls ==
    [fn : {"visit_borrowed_str"},
     v : UNION { [1..n -> TextChars] : n \in 0..MaxTextLen }]

\* Directories handed to set_readonly_all: the ones of the unit test
\* (level1 holding level2) and of a build output, with files at two depths,
\* as they are when writable and as a sealing that stopped midway left them.
RoShapes ==
    { <<>>,
      << DirNode(<<2>>, <<>>) >>,
      << FileNode(<<1>>, <<5>>) >>,
      TreeGood,
      << DirNode(<<2>>, << DirNode(<<3>>, << FileNode(<<1>>, <<>>) >>) >>),
         FileNode(<<1>>, <<5>>) >> }
RoDirs ==
    { SetReadonlyUpTo([EmptySlot EXCEPT !.children = t], TRUE, k) :
        t \in RoShapes, k \in 0..MaxSealed }
ReadonlyCalls == [fn : {"set_readonly_all"}, dir : RoDirs, ro_bool : BOOLEAN]

\* Streams fed to the hasher of verify_hash_from_fn (the bytes of a
\* resource, others, and what a read that failed got through), the values
\* the streaming function returns, and the digests compared with.
FedBytes == { <<>>, <<4>>, SrcBytes, SrcBytesAltered }
SideResults == { 0, 2 }
StreamingFns == [fed : FedBytes, fails : BOOLEAN, side : SideResults]
VerifyCalls ==
    [fn : {"verify_hash_from_fn"},
     hash : { Digest(b) : b \in FedBytes } \cup { <<0, 0>> },
     func : StreamingFns]

CallInputs ==
    PathCalls \cup IdentCalls \cup HashCalls \cup SerializeCalls \cup VisitCalls
    \cup ReadonlyCalls \cup VerifyCalls

\* The variables of a build run, which the calls below leave alone.
runVars ==
    << cxt, storeArg, euidRoot, runNo, results, tampered, pc, store_dir,
       srcIdx, depIdx, bind_dir, dep_dir, buildRoot, slot, mounts, parentEnv,
       childEnv, spawned, hashed, result, log, faulted, now, peer, walk >>

\* No run is under way; the arguments of one call are drawn.
InitCalls ==
    /\ cxt = CxtPlain
    /\ storeArg = AbsPath(<< "yafpm" >>)
    /\ euidRoot = FALSE
    /\ runNo = 0
    /\ results = <<>>
    /\ tampered = FALSE
    /\ pc = "idle"
    /\ store_dir = NoPath
    /\ srcIdx = 1
    /\ depIdx = 1
    /\ bind_dir = NoPath
    /\ dep_dir = NoPath
    /\ buildRoot = NoRoot
    /\ slot = NoSlot
    /\ mounts = <<>>
    /\ parentEnv = NoVars
    /\ childEnv = NoVars
    /\ spawned = 0
    /\ hashed = NotHashed
    /\ result = NoResult
    /\ log = <<>>
    /\ faulted = FALSE
    /\ now = 0
    /\ arg \in CallInputs
    /\ ret = <<>>
    /\ peer = NoPeer
    /\ walk = NoWalk

\* Context::make_path_string(&self, pkg_store_dir)
MakePathString ==
    /\ arg.fn = "make_path_string"
    /\ Len(ret) = 0
    /\ ret' = << make_path_string(arg.cxt, arg.store) >>
    /\ UNCHANGED << arg, runVars >>

\* Package::pkg_ident(&self)
PkgIdent ==
    /\ arg.fn = "pkg_ident"
    /\ Len(ret) = 0
    /\ ret' = << pkg_ident(arg.pkg) >>
    /\ UNCHANGED << arg, runVars >>

\* calculate_directory_hash(dir, hasher): ret is what the hasher was fed.
CalculateDirectoryHash ==
    /\ arg.fn = "calculate_directory_hash"
    /\ Len(ret) = 0
    /\ ret' = << DirStream(arg.dir) >>
    /\ UNCHANGED << arg, runVars >>

\* Serialize for ItemHash
Serialize ==
    /\ arg.fn = "serialize"
    /\ Len(ret) = 0
    /\ ret' = << serialize(arg.hash) >>
    /\ UNCHANGED << arg, runVars >>

\* Deserialize for ItemHash (visit_borrowed_str), of a text drawn or of
\* the text a serialization returned.
VisitBorrowedStr ==
    /\ \/ /\ arg.fn = "visit_borrowed_str"
          /\ Len(ret) = 0
          /\ ret' = << visit_borrowed_str(arg.v) >>
       \/ /\ arg.fn = "serialize"
          /\ Len(ret) = 1
          /\ ret' = Append(ret, visit_borrowed_str(ret[1]))
    /\ UNCHANGED << arg, runVars >>

\* set_readonly_all(dir, ro_bool), on the directory drawn or, with the
\* opposite flag, on the directory a call that returned Ok left: Ok after
\* the permissions of the directory and of everything in it were set, Err
\* when one metadata, set_permissions or read_dir failed after k entries.
SetReadonlyAllCall ==
    /\ arg.fn = "set_readonly_all"
    /\ \/ Len(ret) = 0
       \/ Len(ret) = 1 /\ ret[1].ok
    /\ LET dir == IF Len(ret) = 0 THEN arg.dir ELSE ret[1].dir
           ro_bool == IF Len(ret) = 0 THEN arg.ro_bool ELSE ~ arg.ro_bool
       IN  \/ ret' = Append(ret, [ok |-> TRUE, dir |-> SetReadonlyAll(dir, ro_bool)])
           \/ \E k \in 0..(SlotEntries(dir) - 1) :
                 ret' = Append(ret, [ok |-> FALSE,
                                     dir |-> SetReadonlyUpTo(dir, ro_bool, k)])
    /\ UNCHANGED << arg, runVars >>

\* ItemHash::verify_hash_from_fn(&self, func, object)
VerifyHashFromFn ==
    /\ arg.fn = "verify_hash_from_fn"
    /\ Len(ret) = 0
    /\ ret' = << verify_hash_from_fn(arg.hash, arg.func) >>
    /\ UNCHANGED << arg, runVars >>

NextCalls ==
    \/ MakePathString
    \/ VerifyHashFromFn
    \/ SetReadonlyAllCall
    \/ PkgIdent
    \/ CalculateDirectoryHash
    \/ Serialize
    \/ VisitBorrowedStr

SpecCalls == InitCalls /\ [][NextCalls]_vars

(***************************************************************************)
(* set_readonly_all on a directory that holds symbolic links               *)
(***************************************************************************)

\* The entries of a file system the calls below walk: a directory lists
\* the paths of its entries in read_dir order, a symbolic link names the
\* path it points to ("" names nothing).
SealDir(entries) == [kind |-> "dir", entries |-> entries, target |-> ""]
SealFile == [kind |-> "file", entries |-> <<>>, target |-> ""]
SealLink(target) == [kind |-> "symlink", entries |-> <<>>, target |-> target]

\* A store slot of files and directories only.
FsPlain ==
    [root |-> "out",
     nodes |-> ("out" :> SealDir(<< "out/bin", "out/f" >>))
            @@ ("out/bin" :> SealDir(<< "out/bin/x" >>))
            @@ ("out/bin/x" :> SealFile)
            @@ ("out/f" :> SealFile)]

\* A store slot with a link to a directory outside it, another slot of the
\* store for instance.
FsOutside ==
    [root |-> "out",
     nodes |-> ("out" :> SealDir(<< "out/lib", "out/f" >>))
            @@ ("out/lib" :> SealLink("dep"))
            @@ ("out/f" :> SealFile)
            @@ ("dep" :> SealDir(<< "dep/so" >>))
            @@ ("dep/so" :> SealFile)]

\* A store slot with a link to a file outside it.
FsOutsideFile ==
    [root |-> "out",
     nodes |-> ("out" :> SealDir(<< "out/conf" >>))
            @@ ("out/conf" :> SealLink("etc/conf"))
            @@ ("etc/conf" :> SealFile)]

\* A store slot with a link to one of the directories the link lies in.
FsAncestor ==
    [root |-> "out",
     nodes |-> ("out" :> SealDir(<< "out/d" >>))
            @@ ("out/d" :> SealDir(<< "out/d/up", "out/d/f" >>))
            @@ ("out/d/up" :> SealLink("out"))
            @@ ("out/d/f" :> SealFile)]

\* A store slot with a link to nothing, one to itself and one to a file of
\* the slot.
FsDangling ==
    [root |-> "out",
     nodes |-> ("out" :> SealDir(<< "out/f", "out/gone" >>))
            @@ ("out/f" :> SealFile)
            @@ ("out/gone" :> SealLink(""))]

FsSelf ==
    [root |-> "out",
     nodes |-> ("out" :> SealDir(<< "out/self" >>))
            @@ ("out/self" :> SealLink("out/self"))]

FsInner ==
    [root |-> "out",
     nodes |-> ("out" :> SealDir(<< "out/f", "out/l" >>))
            @@ ("out/f" :> SealFile)
            @@ ("out/l" :> SealLink("out/f"))]

SealFilesystems ==
    { FsPlain, FsOutside, FsOutsideFile, FsAncestor, FsDangling, FsSelf, FsInner }

\* The entries of the tree rooted at a directory: the directory, its
\* entries and theirs; a link is an entry, what it points to is not.
RECURSIVE Below(_, _)
Below(fs, id) ==
    {id} \cup UNION { Below(fs, fs.nodes[id].entries[i]) :
                         i \in 1..Len(fs.nodes[id].entries) }

\* The entries that carry permissions of their own to set: chmod on a
\* link acts on what the link points to.
Chmodable(fs) == { id \in DOMAIN fs.nodes : fs.nodes[id].kind # "symlink" }

\* The permissions before the call: one flag for the entries of the tree,
\* one for the others.
PermsBefore(a) ==
    [id \in Chmodable(a.fs) |->
        IF id \in Below(a.fs, a.fs.root) THEN a.tree_ro ELSE a.other_ro]

\* The arguments of set_readonly_all and the file system it finds.
SealCalls ==
    [fn : {"set_readonly_all"}, fs : SealFilesystems, ro_bool : BOOLEAN,
     tree_ro : BOOLEAN, other_ro : BOOLEAN]

\* What the kernel makes of a path whose last component is the entry id,
\* after it followed n links on the way there: fs::metadata,
\* fs::set_permissions and Path::is_dir all follow links. A variant that
\* counts the links of the last component only comes first.
RECURSIVE ResolvePath_CountsLastOnly(_, _, _)
ResolvePath_CountsLastOnly(fs, id, n) ==
    IF id \notin DOMAIN fs.nodes
    THEN [ok |-> FALSE, err |-> "ENOENT", node |-> "", links |-> 0]
    ELSE IF fs.nodes[id].kind # "symlink"
    THEN [ok |-> TRUE, err |-> "", node |-> id, links |-> 0]
    ELSE IF n + 1 > MaxSymlinks
    THEN [ok |-> FALSE, err |-> "ELOOP", node |-> "", links |-> 0]
    ELSE ResolvePath_CountsLastOnly(fs, fs.nodes[id].target, n + 1)

RECURSIVE ResolvePath(_, _, _)
ResolvePath(fs, id, n) ==
    IF id \notin DOMAIN fs.nodes
    THEN [ok |-> FALSE, err |-> "ENOENT", node |-> "", links |-> n]
    ELSE IF fs.nodes[id].kind # "symlink"
    THEN [ok |-> TRUE, err |-> "", node |-> id, links |-> n]
    ELSE IF n + 1 > MaxSymlinks
    THEN [ok |-> FALSE, err |-> "ELOOP", node |-> "", links |-> n]
    ELSE ResolvePath(fs, fs.nodes[id].target, n + 1)

\* A call of set_readonly_all still to make: the entry its path ends in,
\* the links the kernel follows before it gets to that entry, and the
\* number of calls the call is nested in.
PendingCall(id, links, depth) == [node |-> id, links |-> links, depth |-> depth]

\* The calls the loop over read_dir(dir) makes, first entry first.
EntryCalls(fs, id, links, depth) ==
    [i \in 1..Len(fs.nodes[id].entries) |->
        PendingCall(fs.nodes[id].entries[i], links, depth)]

\* One call is drawn and has just been entered.
InitSeal ==
    /\ cxt = CxtPlain
    /\ storeArg = AbsPath(<< "yafpm" >>)
    /\ euidRoot = FALSE
    /\ runNo = 0
    /\ results = <<>>
    /\ tampered = FALSE
    /\ pc = "idle"
    /\ store_dir = NoPath
    /\ srcIdx = 1
    /\ depIdx = 1
    /\ bind_dir = NoPath
    /\ dep_dir = NoPath
    /\ buildRoot = NoRoot
    /\ slot = NoSlot
    /\ mounts = <<>>
    /\ parentEnv = NoVars
    /\ childEnv = NoVars
    /\ spawned = 0
    /\ hashed = NotHashed
    /\ result = NoResult
    /\ log = <<>>
    /\ faulted = FALSE
    /\ now = 0
    /\ arg \in SealCalls
    /\ ret = <<>>
    /\ peer = NoPeer
    /\ walk = [status |-> "running", err |-> "",
               stack |-> << PendingCall(arg.fs.root, 0, 0) >>,
               ro |-> PermsBefore(arg)]

\* The variables a call of set_readonly_all leaves alone.
sealFrame ==
    << cxt, storeArg, euidRoot, runNo, results, tampered, pc, store_dir,
       srcIdx, depIdx, bind_dir, dep_dir, buildRoot, slot, mounts, parentEnv,
       childEnv, spawned, hashed, result, log, faulted, now, peer, arg, ret >>

\* The body of one call of set_readonly_all(dir, ro_bool): metadata of
\* dir, set_permissions on dir, and, if dir is a directory, one call for
\* each of its entries; an error of any of them ends the outermost call.
SetReadonlyAllBody ==
    /\ walk.status = "running"
    /\ LET call == Head(walk.stack)
           found == ResolvePath(arg.fs, call.node, call.links)
           inner == IF found.ok /\ arg.fs.nodes[found.node].kind = "dir"
                    THEN EntryCalls(arg.fs, found.node, found.links, call.depth + 1)
                    ELSE <<>>
           rest == inner \o Tail(walk.stack)
       IN  \/ /\ ~ found.ok
              /\ walk' = [walk EXCEPT !.status = "Err", !.err = found.err]
           \/ /\ found.ok
              /\ walk' = [walk EXCEPT !.status = "Err", !.err = "EPERM"]
           \/ /\ found.ok
              /\ walk' = [walk EXCEPT
                             !.ro = [@ EXCEPT ![found.node] = arg.ro_bool],
                             !.stack = rest,
                             !.status = IF rest = <<>> THEN "Ok" ELSE "running"]
    /\ UNCHANGED sealFrame

NextSeal == SetReadonlyAllBody

SpecSeal == InitSeal /\ [][NextSeal]_vars

\* The process is scheduled until the call returns.
SpecSealFair == SpecSeal /\ WF_vars(SetReadonlyAllBody)

(***************************************************************************)
(* Reading the run's log                                                   *)
(***************************************************************************)

HasEvent(op, out) == \E i \in 1..Len(log) : log[i] = [op |-> op, out |-> out]
HasOp(op) == \E i \in 1..Len(log) : log[i].op = op
EventBefore(i, op, out) == \E j \in 1..(i - 1) : log[j] = [op |-> op, out |-> out]
CountBefore(i, op, out) ==
    Cardinality({ j \in 1..(i - 1) : log[j] = [op |-> op, out |-> out] })

\* The build command was started (its exit status is known).
ChildRan == \E st \in ExitStatuses : HasEvent("spawn", st)

\* The first run built the package from an empty store and returned Ok.
FirstRunBuilt == Len(results) >= 1 /\ results[1].kind = "Ok"

ExpectedHash == cxt.pkg_info.hash

(***************************************************************************)
(* Claims                                                                  *)
(***************************************************************************)

\* C1: at-most-once install.  In the second run of the same configuration
\* against the same store, after a first run that built the slot and with
\* nobody rewriting the slot in between, the build command is never
\* started, the output slot is never created anew, verification in place is
\* only reached through EEXIST on the slot's creation, and a run that meets
\* no operating-system error returns Ok.
C1_AtMostOnceInstall ==
    (runNo = 2 /\ FirstRunBuilt /\ ~ tampered) =>
        /\ spawned = 0
        /\ ~ HasOp("spawn")
        /\ ~ HasEvent("create_outdir", "ok")
        /\ (pc = "verify_reuse" \/ hashed.done) => HasEvent("create_outdir", "EEXIST")
        /\ (pc = "done" /\ ~ faulted) =>
              /\ result.kind = "Ok"
              /\ HasEvent("create_outdir", "EEXIST")

C1_Witness ==
    /\ runNo = 2 /\ FirstRunBuilt /\ ~ tampered
    /\ pc = "done" /\ result.kind = "Ok"
    /\ HasEvent("create_outdir", "EEXIST")
    /\ spawned = 0

\* C2: no partial success.  When a run has returned (and nobody rewrote the
\* slot by hand), the store slot is absent, or its directory hash is the
\* package's hash and every entry of it is read-only.
C2_NoPartialSuccess ==
    (pc = "done" /\ ~ tampered) =>
        \/ ~ slot.exists
        \/ /\ DirHash(slot.children) = ExpectedHash
           /\ SlotAllReadonly(slot)

\* C3: no residue on success.  When a run has returned Ok, on the fresh
\* path or on the reuse path, the build root is gone, the output slot
\* exists and every entry of it is read-only.
C3_NoResidueOnSuccess ==
    (pc = "done" /\ result.kind = "Ok" /\ ~ tampered) =>
        /\ ~ buildRoot.exists
        /\ slot.exists
        /\ SlotAllReadonly(slot)

\* C4: corruption recovery on the reuse path.  A run that found the slot
\* present (EEXIST) and whose slot hashes to something other than the
\* package's hash returns HashError, and the slot is gone from the store
\* unless the error of its removal is carried in teardown_err.
C4_CorruptionRecovery ==
    (/\ pc = "done"
     /\ HasEvent("create_outdir", "EEXIST")
     /\ hashed.done
     /\ DirHash(hashed.children) # ExpectedHash) =>
        /\ result.kind = "HashError"
        /\ slot.exists => result.teardown_err # ""

C4_Witness ==
    /\ pc = "done"
    /\ HasEvent("create_outdir", "EEXIST")
    /\ hashed.done
    /\ DirHash(hashed.children) # ExpectedHash
    /\ result.kind = "HashError"
    /\ result.cause = "BadHash"
    /\ ~ slot.exists

\* C5: hash mismatch after a fresh build.  A run whose build command exited
\* zero and whose output hashes to something other than the package's hash
\* returns HashError (with the expected and the found digest when the
\* hashing itself completed), never seals the output, and the slot is gone
\* unless the error of its removal is carried in teardown_err.
C5_FreshHashMismatch ==
    (/\ pc = "done"
     /\ HasEvent("spawn", "exit0")
     /\ hashed.done
     /\ DirHash(hashed.children) # ExpectedHash) =>
        /\ result.kind = "HashError"
        /\ ~ HasEvent("hash", "err") =>
              /\ result.cause = "BadHash"
              /\ result.expected = ExpectedHash
              /\ result.found = DirHash(hashed.children)
        /\ ~ HasOp("seal")
        /\ ~ slot.ro
        /\ HasOp("remove_slot")
        /\ slot.exists => result.teardown_err # ""

C5_Witness ==
    /\ pc = "done"
    /\ HasEvent("spawn", "exit0")
    /\ hashed.done
    /\ DirHash(hashed.children) # ExpectedHash
    /\ result.kind = "HashError"
    /\ result.found = DirHash(TreeBad)
    /\ slot.exists
    /\ result.teardown_err = "io"

\* C6: unwinding on failure.  When a run that created the build root has
\* returned an error, no bind mount of the run is left and the build root
\* is removed or its removal was attempted and failed.
C6_UnwindingOnFailure ==
    (/\ pc = "done"
     /\ HasEvent("create_context_dir", "ok")
     /\ result.kind # "Ok") =>
        /\ mounts = <<>>
        /\ ~ buildRoot.exists \/ HasEvent("remove_build_root", "err")

\* The ordering the pipeline keeps in every run, but for the place of the
\* hash check.
OrderingOfPipeline ==
    \A i \in 1..Len(log) :
        /\ log[i].op = "mount_dep" =>
              EventBefore(i, "unshare", "ok") /\ EventBefore(i, "uid_map", "ok")
        /\ log[i].op = "mount_out" =>
              CountBefore(i, "mount_dep", "ok") = Len(dependencies(cxt))
        /\ log[i].op = "spawn" =>
              /\ CountBefore(i, "mount_dep", "ok") = Len(dependencies(cxt))
              /\ EventBefore(i, "mount_out", "ok")
        /\ log[i].op = "seal" => EventBefore(i, "hash", "match")
        /\ log[i].op \in {"umount_out", "umount_dep"} => EventBefore(i, "seal", "ok")
        /\ log[i].op = "remove_build_root" =>
              /\ i = Len(log)
              /\ EventBefore(i, "umount_out", "ok")
              /\ CountBefore(i, "umount_dep", "ok") = Len(dependencies(cxt))
              /\ pc = "done"

\* C7 as stated: the ordering above, and each directory hash check comes
\* after the build command exited successfully.
C7_PipelineOrdering_Original ==
    /\ OrderingOfPipeline
    /\ \A i \in 1..Len(log) :
          log[i].op = "hash" => EventBefore(i, "spawn", "exit0")

\* C7, amended: the ordering above, and each directory hash check comes
\* after the build command exited successfully or, on the reuse path, after
\* the creation of the output slot failed with EEXIST (no build command is
\* run then).
C7_PipelineOrdering ==
    /\ OrderingOfPipeline
    /\ \A i \in 1..Len(log) :
          log[i].op = "hash" =>
              \/ EventBefore(i, "spawn", "exit0")
              \/ /\ EventBefore(i, "create_outdir", "EEXIST")
                 /\ ~ HasOp("spawn")

C7_Witness ==
    /\ pc = "done"
    /\ result.kind = "Ok"
    /\ HasEvent("remove_build_root", "ok")
    /\ HasEvent("spawn", "exit0")
    /\ Len(dependencies(cxt)) = 2

\* C8: build command exit handling.  A run starts the build command at most
\* once; after exit status zero the run goes on to the hash verification;
\* after any other status it has returned BuildCmdError carrying that
\* status, with no hash verification and no sealing.
C8_ExitHandling ==
    /\ spawned <= 1
    /\ Cardinality({ i \in 1..Len(log) : log[i].op = "spawn" }) <= 1
    /\ HasEvent("spawn", "exit0") => (pc = "verify" \/ hashed.done)
    /\ \A st \in ExitStatuses \ {"exit0"} :
          HasEvent("spawn", st) =>
              /\ pc = "done"
              /\ result.kind = "BuildCmdError"
              /\ result.status = st
              /\ ~ hashed.done
              /\ ~ HasOp("hash")
              /\ ~ HasOp("seal")

C8_Witness ==
    /\ pc = "done"
    /\ HasEvent("spawn", "signal9")
    /\ result.kind = "BuildCmdError"
    /\ result.status = "signal9"
    /\ spawned = 1

\* The names the builder sets explicitly on the build command.
RECURSIVE NamesOf(_)
NamesOf(pkgs) ==
    IF pkgs = <<>> THEN {} ELSE {Head(pkgs).pkg_name} \cup NamesOf(Tail(pkgs))

ExplicitNames(c) ==
    {"out", "PATH"} \cup NamesOf(dependencies(c)) \cup DOMAIN c.build_settings

\* C9: sandbox environment scrubbing.  Whatever the parent's environment,
\* the environment the build command is started with has exactly the names
\* the builder sets explicitly, none of its values is the parent's, and it
\* is the environment the same command gets under an empty parent
\* environment.
C9_EnvScrubbing ==
    ChildRan =>
        /\ DOMAIN childEnv = ExplicitNames(cxt)
        /\ \A k \in DOMAIN parentEnv :
              k \notin ExplicitNames(cxt) => k \notin DOMAIN childEnv
        /\ \A k \in DOMAIN childEnv : childEnv[k] # "parent"
        /\ childEnv = CaptureEnv(BuildCmdEnv(cxt, store_dir, out_dir), NoVars)

C9_Witness ==
    /\ ChildRan
    /\ "SECRET" \in DOMAIN parentEnv
    /\ "CC" \in DOMAIN parentEnv
    /\ "CC" \in DOMAIN childEnv
    /\ "SECRET" \notin DOMAIN childEnv

\* The path a process chrooted into root sees a host path under.
InsideChroot(root, p) ==
    IF /\ Len(p.comps) >= Len(root.comps)
       /\ SubSeq(p.comps, 1, Len(root.comps)) = root.comps
    THEN AbsPath(SubSeq(p.comps, Len(root.comps) + 1, Len(p.comps)))
    ELSE NoPath

\* The text of store_dir/ident(package).
OutSlotText == PathStr(store_dir) \o "/" \o pkg_ident(cxt.pkg_info)

\* C10 as stated: the build command's environment has a variable named OUT
\* whose value is the absolute path of the output slot.
C10_OutVariable_Original ==
    ChildRan =>
        /\ "OUT" \in DOMAIN childEnv
        /\ childEnv["OUT"] = OutSlotText

\* C10, amended: the build command's environment has a variable named out
\* (lower case) whose value is the absolute path of the output slot
\* store_dir/ident(package); while the output is mounted, that path names
\* the slot on the host and inside the chroot.
C10_OutVariable ==
    ChildRan =>
        /\ "out" \in DOMAIN childEnv
        /\ childEnv["out"] = OutSlotText
        /\ store_dir.abs
        /\ ~ HasEvent("umount_out", "ok") =>
              \E i \in 1..Len(mounts) :
                  /\ PathStr(mounts[i].src) = childEnv["out"]
                  /\ PathStr(InsideChroot(build_dir, mounts[i].dst)) = childEnv["out"]

C10_Witness ==
    /\ ChildRan
    /\ "out" \in DOMAIN cxt.build_settings
    /\ "out" \in DOMAIN parentEnv
    /\ childEnv["out"] = OutSlotText
    /\ ~ storeArg.abs

\* The text of one PATH segment for a dependency, written out field by
\* field.
PathSegment(store, d) ==
    PathStr(store) \o "/" \o d.pkg_name \o "-" \o d.pkg_version \o "-"
    \o Base32NoPad(d.hash) \o "/bin/:"

\* The segments of the dependencies from the i-th on, joined.
RECURSIVE SegmentsFrom(_, _, _)
SegmentsFrom(store, deps, i) ==
    IF i > Len(deps) THEN ""
    ELSE PathSegment(store, deps[i]) \o SegmentsFrom(store, deps, i + 1)

\* C11: PATH construction.  make_path_string(store_dir) is the
\* concatenation, over package.deps followed by build_deps with duplicates
\* kept, of store_dir "/" ident(dep) "/bin/:"; it is empty when there are
\* no dependencies, and for the context of the repository's unit test it
\* is the text that test expects.
C11_PathConstruction ==
    (arg.fn = "make_path_string" /\ Len(ret) = 1) =>
        LET deps == arg.cxt.pkg_info.deps \o arg.cxt.build_deps
        IN  /\ ret[1] = SegmentsFrom(arg.store, deps, 1)
            /\ (deps = <<>> => ret[1] = "")
            /\ (arg.cxt = ExampleBuildCxt /\ arg.store = AbsPath(<< "root" >>)) =>
                   ret[1] = "/root/dependency-1.0.0-GNC4RH2YRCDAH7AHVIISWYE2JSD3PJXAQTRCMTGQLXJRULOJKI5A/bin/:"

\* make_path_string has returned for a context that names libc twice among
\* its dependencies and tool both as a dependency and a build dependency.
C11_Witness ==
    /\ arg.fn = "make_path_string"
    /\ arg.cxt = CxtRepeatedDeps
    /\ Len(ret) = 1
    /\ Len(ret[1]) = 4 * Len("/yafpm/libc-1-AAAA/bin/:")

\* C12: package identifier.  pkg_ident(p) is name "-" version "-"
\* BASE32_NOPAD(hash); packages that agree on these three fields have the
\* same identifier whatever their dependencies; the package of the
\* repository's unit test gets the identifier that test expects.
C12_PackageIdentifier ==
    (arg.fn = "pkg_ident" /\ Len(ret) = 1) =>
        LET p == arg.pkg
        IN  /\ ret[1] = p.pkg_name \o "-" \o p.pkg_version \o "-" \o Base32NoPad(p.hash)
            /\ \A q \in IdentPkgs :
                   (q.pkg_name = p.pkg_name /\ q.pkg_version = p.pkg_version
                    /\ q.hash = p.hash) => pkg_ident(q) = ret[1]
            /\ (p.pkg_name = "test" /\ p.pkg_version = "1.0.0"
                 /\ p.hash = HelloWorldDigest) =>
                   ret[1] = "test-1.0.0-GNC4RH2YRCDAH7AHVIISWYE2JSD3PJXAQTRCMTGQLXJRULOJKI5A"

\* pkg_ident has returned for the unit test's package with dependencies
\* added to it.
C12_Witness ==
    /\ arg.fn = "pkg_ident"
    /\ arg.pkg = add_deps(TestPkg, << TestPkg >>)
    /\ Len(ret) = 1

\* The directory listings that differ from es only in the order in which
\* read_dir lists the children of the directory and of its subdirectories.
RECURSIVE Reorderings(_), ChildOrders(_)
Reorderings(es) ==
    IF es = <<>> THEN { <<>> }
    ELSE UNION { { [i \in 1..Len(es) |-> t[f[i]]] : f \in Permutations(1..Len(es)) } :
                 t \in ChildOrders(es) }
ChildOrders(es) ==
    IF es = <<>> THEN { <<>> }
    ELSE LET e == Head(es)
             heads == IF e.kind = "dir"
                      THEN { [e EXCEPT !.children = c] : c \in Reorderings(e.children) }
                      ELSE { e }
         IN  { << h >> \o t : h \in heads, t \in ChildOrders(Tail(es)) }

\* C13: directory hash determinism.  The byte stream
\* calculate_directory_hash feeds to the hasher for a tree, and the digest
\* of it, is the same for every order in which the file system lists the
\* children of each directory.
C13_HashDeterminism ==
    (arg.fn = "calculate_directory_hash" /\ Len(ret) = 1) =>
        \A t \in Reorderings(arg.dir) :
            /\ DirStream(t) = ret[1]
            /\ DirHash(t) = Digest(ret[1])

\* The hash of a tree was calculated whose top directory and whose
\* subdirectory were both listed out of order.
C13_Witness ==
    /\ arg.fn = "calculate_directory_hash"
    /\ Len(ret) = 1
    /\ arg.dir = << FileNode(<<2, 1>>, <<1>>),
                    DirNode(<<1, 2>>, << FileNode(<<2, 1>>, <<>>),
                                         FileNode(<<1, 2>>, <<>>) >>) >>

\* The i-th entry keeps its place among its siblings when it is renamed n.
SamePlace(es, i, n) ==
    \A j \in (1..Len(es)) \ {i} :
        BytesLess(es[j].name, es[i].name) <=> BytesLess(es[j].name, n)

\* The trees that differ from es in one respect: the content of one file,
\* the target of one link or the name of one entry.  stays tells of a
\* renaming that it changes the length of the name or keeps the entry's
\* place among its siblings.
RECURSIVE Mutations(_)
Mutations(es) ==
    UNION { LET e == es[i] IN
            { [tree |-> [es EXCEPT ![i] = [e EXCEPT !.name = n]], kind |-> "name",
               stays |-> (Len(n) # Len(e.name) \/ SamePlace(es, i, n))] :
                  n \in EntryNames \ { es[j].name : j \in 1..Len(es) } }
            \cup
            (IF e.kind = "file"
             THEN { [tree |-> [es EXCEPT ![i] = [e EXCEPT !.bytes = b]],
                     kind |-> "content", stays |-> TRUE] :
                        b \in FileContents \ {e.bytes} }
             ELSE IF e.kind = "symlink"
             THEN { [tree |-> [es EXCEPT ![i] = [e EXCEPT !.bytes = b]],
                     kind |-> "target", stays |-> TRUE] :
                        b \in LinkTargets \ {e.bytes} }
             ELSE { [m EXCEPT !.tree = [es EXCEPT ![i] = [e EXCEPT !.children = m.tree]]] :
                        m \in Mutations(e.children) })
          : i \in 1..Len(es) }

\* C14 as stated: every change of one file's content, one entry's name or
\* one link's target changes the byte stream fed to the hasher.
C14_HashSensitivity_Original ==
    (arg.fn = "calculate_directory_hash" /\ Len(ret) = 1) =>
        \A m \in Mutations(arg.dir) : DirStream(m.tree) # ret[1]

\* C14: directory hash sensitivity.  Changing the content of one regular
\* file or the target of one symbolic link changes the byte stream fed to
\* the hasher; so does renaming one entry when the new name has another
\* length or leaves the entry at its place in the sorted order of its
\* siblings.
C14_HashSensitivity ==
    (arg.fn = "calculate_directory_hash" /\ Len(ret) = 1) =>
        \A m \in Mutations(arg.dir) : m.stays => DirStream(m.tree) # ret[1]

\* The hash of a tree with a file, and a subdirectory holding a file, was
\* calculated: content and names can be changed at both levels.
C14_Witness ==
    /\ arg.fn = "calculate_directory_hash"
    /\ Len(ret) = 1
    /\ arg.dir = << FileNode(<<2, 1>>, <<1>>),
                    DirNode(<<3>>, << FileNode(<<2, 1>>, <<1>>) >>) >>
    /\ \E m \in Mutations(arg.dir) : m.kind = "content"
    /\ \E m \in Mutations(arg.dir) : m.kind = "name" /\ m.stays

\* C15: hash text round trip.  Deserializing the serialization of a hash
\* gives the hash back, and the serialization is two lower-case
\* hexadecimal digits per byte; a text whose length is not twice the
\* digest width is rejected as of invalid length, whatever it holds.
C15_HashTextRoundTrip ==
    /\ (arg.fn = "serialize" /\ Len(ret) >= 1) =>
          /\ Len(ret[1]) = 2 * Len(arg.hash)
          /\ \A i \in 1..Len(arg.hash) :
                /\ \E k \in 1..16 : ret[1][2 * i - 1] = HexLower[k] /\ k - 1 = arg.hash[i] \div 16
                /\ \E k \in 1..16 : ret[1][2 * i] = HexLower[k] /\ k - 1 = arg.hash[i] % 16
    /\ (arg.fn = "serialize" /\ Len(ret) = 2) =>
          /\ ret[2].ok
          /\ ret[2].val = arg.hash
    /\ (arg.fn = "visit_borrowed_str" /\ Len(ret) = 1
         /\ Len(arg.v) # 2 * OutputSize) =>
          /\ ~ ret[1].ok
          /\ ret[1].err = "invalid_length"

\* A hash with letters among its digits went through serialization and
\* deserialization.
C15_Witness ==
    /\ arg.fn = "serialize"
    /\ arg.hash = <<171, 9>>
    /\ Len(ret) = 2
    /\ ret[1] = << "a", "b", "0", "9" >>

\* Number of resources whose bytes the run has verified against their hash.
VerifiedCount ==
    Cardinality({ i \in 1..Len(log) : log[i] = [op |-> "verify", out |-> "ok"] })

\* C16: resource verify-before-write.  In a run that created its build
\* root, every write of a resource into the build root directly follows
\* the successful verification of that resource's bytes; every file of the
\* build root carries the name of a resource verified in this run; and a
\* fetch that ends in a hash mismatch returns a HashError naming the
\* resource, with both digests, and leaves no file of that name.
C16_VerifyBeforeWrite ==
    HasEvent("create_context_dir", "ok") =>
        /\ \A i \in 1..Len(log) :
              log[i].op = "write" =>
                  i > 1 /\ log[i - 1] = [op |-> "verify", out |-> "ok"]
        /\ \A n \in DOMAIN buildRoot.files :
              \E k \in 1..Len(cxt.srcs) :
                  cxt.srcs[k].name = n /\ k <= VerifiedCount
        /\ HasEvent("verify", "BadHash") =>
              /\ result.kind = "SetupError"
              /\ result.cause = "HashError"
              /\ result.name = cxt.srcs[VerifiedCount + 1].name
              /\ result.expected = cxt.srcs[VerifiedCount + 1].hash
              /\ result.found # result.expected
              /\ result.name \notin DOMAIN buildRoot.files

\* The first resource was verified and written, the second one did not
\* match its hash.
C16_Witness ==
    /\ cxt = CxtWithDeps
    /\ HasEvent("verify", "BadHash")
    /\ result.name = "unhex.x"
    /\ DOMAIN buildRoot.files = {"unhex"}

\* Steps of a run that enter the sandbox, mount, or touch the store.
SandboxOps == { "unshare", "uid_map", "mount_dep", "mount_out", "spawn" }
StoreOps == { "create_outdir", "hash", "remove_slot", "seal" }

\* The resources of the configuration whose URL scheme no backend serves.
UnknownSchemeAt ==
    { k \in 1..Len(cxt.srcs) : cxt.srcs[k].scheme \notin {"file", "http", "https"} }

\* C17: unknown URL scheme.  A run whose fetch loop comes to a resource
\* with a scheme that is none of file, http, https returns SetupError
\* caused by Unrecognized with that resource's scheme and name; no file of
\* that name is written, the run never enters the sandbox or mounts, and
\* the store is not touched.  A configuration with such a resource never
\* gets past fetching.
C17_UnknownScheme ==
    /\ HasEvent("fetch", "Unrecognized") =>
          /\ pc = "done"
          /\ result.kind = "SetupError"
          /\ result.cause = "Unrecognized"
          /\ VerifiedCount + 1 \in UnknownSchemeAt
          /\ result.scheme = cxt.srcs[VerifiedCount + 1].scheme
          /\ result.name = cxt.srcs[VerifiedCount + 1].name
          /\ result.name \notin DOMAIN buildRoot.files
          /\ \A i \in 1..Len(log) : log[i].op \notin SandboxOps \cup StoreOps
          /\ mounts = <<>>
    /\ UnknownSchemeAt # {} =>
          /\ \A i \in 1..Len(log) : log[i].op \notin SandboxOps \cup StoreOps
          /\ slot = NoSlot
          /\ \A i \in 1..Len(results) :
                results[i].kind \in {"CanonicalizeError", "SetupError"}

\* The resource x with URL scheme ftp was refused after an earlier
\* resource had been fetched.
C17_Witness ==
    /\ HasEvent("fetch", "Unrecognized")
    /\ result.scheme = "ftp"
    /\ result.name = "x"
    /\ DOMAIN buildRoot.files = {"unhex"}

\* C18: build-root name collision.  When the build root exists as a run
\* comes to create it, the creation fails with EEXIST and the run ends
\* there with SetupError, the directory, the store slot and the mount
\* table being what they were; the run has fetched nothing, has not
\* entered the sandbox, mounted nothing and not touched the store.
C18_BuildRootCollision ==
    /\ [][(pc = "mkroot" /\ buildRoot.exists) =>
             /\ pc' = "done"
             /\ result'.kind = "SetupError"
             /\ result'.cause = "EEXIST"
             /\ log' = Append(log, [op |-> "create_context_dir", out |-> "EEXIST"])
             /\ buildRoot' = buildRoot
             /\ slot' = slot
             /\ mounts' = mounts]_vars
    /\ [](HasEvent("create_context_dir", "EEXIST") =>
             /\ pc = "done"
             /\ result.kind = "SetupError"
             /\ \A i \in 1..Len(log) :
                   log[i].op \in {"canonicalize", "create_context_dir"}
             /\ mounts = <<>>)

\* A run found the build root of an earlier run, with a fetched file in
\* it, and ended with EEXIST.
C18_Witness ==
    /\ HasEvent("create_context_dir", "EEXIST")
    /\ result.cause = "EEXIST"
    /\ buildRoot.exists
    /\ DOMAIN buildRoot.files # {}

\* C19: the store path is absolute after entry.  Whatever store path a run
\* is given, the paths its mount and unmount steps work on are absolute
\* and no strip_prefix("/") panics; a run whose relative store path cannot
\* be canonicalized ends with CanonicalizeError as its only step, the build
\* root, the store slot and the mount table being what they were.
C19_StorePathAbsolute ==
    /\ [](/\ result.kind # "Panic"
          /\ \A i \in 1..Len(log) : log[i].out # "panic"
          /\ pc \in {"mkroot", "fetch", "unshare", "uid_map", "mount_deps", "mkout",
                      "mount_out", "exec", "verify", "verify_reuse", "seal",
                      "umount_out", "umount_deps", "rm_root"} => store_dir.abs
          /\ pc \in {"mount_deps", "umount_deps"} =>
                /\ StripRootOk(PathJoin(dep_dir,
                                        RelPath(<< pkg_ident(dependencies(cxt)[depIdx]) >>)))
                /\ bind_dir.abs
          /\ pc \in {"mount_out", "umount_out"} => StripRootOk(out_dir)
          /\ \A i \in 1..Len(mounts) : mounts[i].src.abs /\ mounts[i].dst.abs
          /\ result.kind = "CanonicalizeError" =>
                /\ ~ storeArg.abs
                /\ log = << [op |-> "canonicalize", out |-> "err"] >>)
    /\ [][(pc = "canon" /\ pc' = "done") =>
             /\ result'.kind = "CanonicalizeError"
             /\ buildRoot' = buildRoot
             /\ slot' = slot
             /\ mounts' = mounts]_vars

\* A run given a relative store path has mounted its dependencies and the
\* output slot and unmounted them again.
C19_Witness ==
    /\ ~ storeArg.abs
    /\ store_dir = PathJoin(Cwd, storeArg)
    /\ HasEvent("mount_dep", "ok")
    /\ HasEvent("mount_out", "ok")
    /\ HasEvent("umount_out", "ok")
    /\ HasEvent("umount_dep", "ok")
    /\ pc = "rm_root"

\* A step of teardown_shell failed in this run.
TeardownStepFailed ==
    HasEvent("umount_dep", "err") \/ HasEvent("remove_build_root", "err")

\* C20: shell context teardown.  Once the shell command of an enter_shell
\* run was started and has exited, with whatever status, the run goes on to
\* unmount every dependency mount and to remove the build root; it returns
\* Ok when no teardown step fails, and then no mount and no build root is
\* left, and TeardownError otherwise.  A shell run never creates, hashes,
\* seals or removes an output slot.
C20_ShellTeardown ==
    /\ (ChildRan /\ pc = "done") =>
          /\ result.kind \in {"Ok", "TeardownError"}
          /\ result.kind = "Ok" <=> ~ TeardownStepFailed
          /\ result.kind = "Ok" =>
                /\ mounts = <<>>
                /\ ~ buildRoot.exists
                /\ Cardinality({ i \in 1..Len(log) :
                                    log[i] = [op |-> "umount_dep", out |-> "ok"] })
                     = Len(shell_dependencies(cxt))
                /\ log[Len(log)] = [op |-> "remove_build_root", out |-> "ok"]
    /\ (ChildRan /\ pc # "done") => pc \in {"umount_deps", "rm_root"}
    /\ \A i \in 1..Len(log) : log[i].op \notin StoreOps \cup {"mount_out", "umount_out"}
    /\ slot = NoSlot
    /\ hashed = NotHashed

\* A shell with two dependencies exited with a non-zero status; the run
\* unmounted both, removed the build root and returned Ok.
C20_Witness ==
    /\ IsShellCxt(cxt)
    /\ HasEvent("spawn", "exit1")
    /\ Len(shell_dependencies(cxt)) = 2
    /\ pc = "done"
    /\ result.kind = "Ok"
    /\ mounts = <<>>
    /\ ~ buildRoot.exists


\* The build root's path as the specification names it: the temporary
\* directory joined with "<name>-build".
NamedBuildRoot == PathJoin(TempDir, RelPath(<< context_name(cxt) \o "-build" >>))

\* C21: build root naming.  A run whose create_context_dir succeeded has
\* created its build root at <tempdir>/<package.name>-build, and a run whose
\* create_context_dir found the directory there returns that EEXIST error.
C21_BuildRootNaming ==
    /\ HasEvent("create_context_dir", "ok") =>
          /\ buildRoot.exists \/ HasOp("remove_build_root")
          /\ build_dir = NamedBuildRoot
    /\ HasEvent("create_context_dir", "EEXIST") =>
          /\ pc = "done"
          /\ result.kind = "SetupError"
          /\ result.cause = "EEXIST"


\* The newest event of the log.
LastEvent == log[Len(log)]

\* The steps of umount_out_dir and umount_dep_dirs of a fresh build take,
\* each, one bind mount of this run out of the mount table: the output
\* mount first, which is the newest.
UmountOutStep ==
    (pc = "umount_out" /\ pc' # "done") =>
        /\ mounts # <<>>
        /\ mounts[Len(mounts)] = [src |-> out_dir,
                                  dst |-> PathJoin(build_dir, StripRoot(out_dir))]
        /\ mounts' = SubSeq(mounts, 1, Len(mounts) - 1)

\* A failed unmount left the mount table as it was and its error names the
\* directory it was aimed at, which is still mounted.
UmountErrorNamesTarget ==
    (pc = "done" /\ Len(log) > 0 /\ LastEvent.out = "err"
       /\ LastEvent.op \in {"umount_out", "umount_dep"}) =>
        /\ result.kind = "TeardownError"
        /\ result.cause = "BindUMountError"
        /\ Mounted(mounts, result.target_dir)
        /\ LastEvent.op = "umount_out" =>
              result.target_dir = mounts[Len(mounts)].dst

\* C22 as stated: teardown unmounts what setup mounted in the reverse of
\* the mounting order, the output mount first and then the dependency
\* mounts newest first; a failing unmount reports its target.
C22_TeardownInverse_Original ==
    /\ [](HasEvent("remove_build_root", "ok") => mounts = <<>>)
    /\ []UmountErrorNamesTarget
    /\ []((pc = "done" /\ Len(log) > 0
             /\ LastEvent = [op |-> "umount_dep", out |-> "err"]) =>
               result.target_dir = mounts[Len(mounts)].dst)
    /\ [][ /\ UmountOutStep
           /\ (pc = "umount_deps" /\ pc' # "done") =>
                 mounts' = SubSeq(mounts, 1, Len(mounts) - 1) ]_vars

\* C22: teardown of a fresh build.  umount_out_dir takes the output mount,
\* the newest, out of the mount table, then umount_dep_dirs takes the
\* dependency mounts out one by one in the order in which they were
\* mounted, oldest first; when the build root has been removed no mount of
\* the run is left; a failing unmount ends the run with a TeardownError
\* that names the directory it was aimed at, the oldest remaining
\* dependency mount in the case of umount_dep_dirs.
C22_TeardownInverse ==
    /\ [](HasEvent("remove_build_root", "ok") => mounts = <<>>)
    /\ []UmountErrorNamesTarget
    /\ []((pc = "done" /\ Len(log) > 0
             /\ LastEvent = [op |-> "umount_dep", out |-> "err"]) =>
               result.target_dir = mounts[1].dst)
    /\ [][ /\ UmountOutStep
           /\ (pc = "umount_deps" /\ pc' # "done") =>
                 (mounts # <<>> /\ mounts' = Tail(mounts)) ]_vars

\* A build with two dependencies unmounted the output and the first
\* dependency; the unmount of the second failed.
C22_Witness ==
    /\ ~ IsShellCxt(cxt)
    /\ Len(dependencies(cxt)) = 2
    /\ HasEvent("umount_out", "ok")
    /\ HasEvent("umount_dep", "ok")
    /\ LastEvent = [op |-> "umount_dep", out |-> "err"]
    /\ Len(mounts) = 1
    /\ result.target_dir = mounts[1].dst


\* C23: dependency mount paths.  While a run mounts, and until it unmounts,
\* the i-th bind mount of the run is the one of the i-th dependency: its
\* source is store_dir/ident(dep) and its target build_root +
\* store_dir/ident(dep), whatever dependencies came before it.
C23_DependencyMountPaths ==
    (~ HasOp("umount_out") /\ ~ HasOp("umount_dep")) =>
        \A i \in 1..Len(mounts) :
            i <= Len(self_dependencies(cxt)) =>
                LET dep == self_dependencies(cxt)[i]
                    src == PathJoin(store_dir, PathOfText(pkg_ident(dep)))
                IN  mounts[i] = [src |-> src,
                                 dst |-> PathJoin(build_dir, StripRoot(src))]


\* The events of the fetches of a run, and the ones of a fetch that failed.
FetchOps == {"fetch", "verify", "write"}
FetchFailed(e) == e.op \in FetchOps /\ e.out # "ok"

\* How many resources this run has written into its build root.
WrittenCount ==
    Cardinality({ i \in 1..Len(log) : log[i] = [op |-> "write", out |-> "ok"] })

\* The names of the first k resources.
FirstNames(k) == { self_resources(cxt)[i].name : i \in 1..k }

\* C24: fetch ordering.  A run that created its build root fetches its
\* resources one at a time in declaration order: the resource in work is
\* the one after those already written, and the files of the build root
\* are those of the resources before it (and what a failed write left of
\* it).  The first fetch that fails ends the run with a SetupError, so that
\* no later resource is fetched; and unshare is called only after every
\* resource has been written.
C24_FetchOrdering ==
    HasEvent("create_context_dir", "ok") =>
        /\ pc = "fetch" =>
              /\ srcIdx = WrittenCount + 1
              /\ srcIdx <= Len(self_resources(cxt))
        /\ WrittenCount <= Len(self_resources(cxt))
        /\ FirstNames(WrittenCount) \subseteq DOMAIN buildRoot.files
              \/ HasOp("remove_build_root")
        /\ DOMAIN buildRoot.files \subseteq
              FirstNames(IF WrittenCount < Len(self_resources(cxt))
                         THEN WrittenCount + 1 ELSE WrittenCount)
        /\ \A i \in 1..Len(log) :
              /\ FetchFailed(log[i]) =>
                    /\ i = Len(log)
                    /\ pc = "done"
                    /\ result.kind = "SetupError"
              /\ log[i].op = "unshare" =>
                    /\ WrittenCount = Len(self_resources(cxt))
                    /\ \A j \in 1..Len(log) : log[j].op \in FetchOps => j < i

\* The first of two resources was written, the fetch of the second failed,
\* and the run ended without entering a namespace.
C24_Witness ==
    /\ Len(self_resources(cxt)) = 2
    /\ WrittenCount = 1
    /\ FetchFailed(LastEvent)
    /\ pc = "done"
    /\ ~ HasOp("unshare")
    /\ DOMAIN buildRoot.files = FirstNames(1)


\* The step an event reports did not do what it was called for.
StepFailed(e) ==
    /\ e.out \notin {"ok", "match"}
    /\ e # [op |-> "spawn", out |-> "exit0"]
    /\ e # [op |-> "remove_slot", out |-> ""]

\* The one failure exec_build answers by going on: EEXIST (os error 17) of
\* the creation of the output slot.
Recovered(e) == e = [op |-> "create_outdir", out |-> "EEXIST"]

\* C25: single local recovery.  EEXIST on the creation of the output slot
\* does not end the run: the next thing the run does is to hash the slot
\* that is there.  Every other failed step ends the run with an error, and
\* nothing of the pipeline follows it; all that may follow a failed hash
\* check is the removal of the slot that failed it.
C25_SingleLocalRecovery ==
    \A i \in 1..Len(log) :
        /\ (StepFailed(log[i]) /\ ~ Recovered(log[i])) =>
              /\ pc = "done"
              /\ result.kind \notin {"", "Ok"}
              /\ \A j \in (i + 1)..Len(log) :
                    /\ log[i].op = "hash"
                    /\ j = i + 1
                    /\ log[j].op = "remove_slot"
        /\ Recovered(log[i]) =>
              /\ i = Len(log) => pc = "verify_reuse"
              /\ i < Len(log) => log[i + 1].op = "hash"

\* A run found the output slot there, matched its hash and returned Ok,
\* after an earlier run had ended with an error of another kind.
C25_Witness ==
    /\ HasEvent("create_outdir", "EEXIST")
    /\ LastEvent = [op |-> "hash", out |-> "match"]
    /\ pc = "done"
    /\ result.kind = "Ok"
    /\ Len(results) > 1
    /\ results[1].kind = "SetupError"


\* A step of cleanup_post_build failed in this run.
CleanupStepFailed ==
    \E op \in {"seal", "umount_out", "umount_dep", "remove_build_root"} :
        HasEvent(op, "err")

\* C26: teardown failure keeps the slot.  In a run whose build command ran
\* and whose output matched the hash, a failing step of cleanup_post_build
\* (seal, unmount of the output, unmount of a dependency, removal of the
\* build root) is the last thing the run does; the run returns
\* TeardownError; and the slot is in the store with the verified content.
C26_TeardownFailureKeepsSlot ==
    (ChildRan /\ HasEvent("hash", "match") /\ CleanupStepFailed) =>
        /\ pc = "done"
        /\ result.kind = "TeardownError"
        /\ LastEvent.out = "err"
        /\ \A i \in 1..(Len(log) - 1) : log[i].out # "err"
        /\ ~ HasOp("remove_slot")
        /\ slot.exists
        /\ tampered \/ DirHash(slot.children) = cxt.pkg_info.hash

\* The unmount of the output failed after the slot was verified and
\* sealed: dependency mounts and build root are still there, and so is the
\* slot.
C26_Witness ==
    /\ ChildRan
    /\ HasEvent("hash", "match")
    /\ HasEvent("seal", "ok")
    /\ LastEvent = [op |-> "umount_out", out |-> "err"]
    /\ ~ HasOp("umount_dep")
    /\ ~ HasOp("remove_build_root")
    /\ Len(mounts) = Len(dependencies(cxt)) + 1
    /\ Len(dependencies(cxt)) > 0
    /\ buildRoot.exists
    /\ result.kind = "TeardownError"
    /\ slot.exists


\* Every entry of a tree has the read-only bit b.
RECURSIVE AllEntriesHave(_, _)
AllEntriesHave(es, b) ==
    \A i \in 1..Len(es) : es[i].ro = b /\ AllEntriesHave(es[i].children, b)

\* The directory and everything in it has the read-only bit b.
TreeHas(dir, b) == dir.ro = b /\ AllEntriesHave(dir.children, b)

\* Two trees hold the same entries with the same content; only the
\* read-only bits may differ.
RECURSIVE SameButRo(_, _)
SameButRo(es, fs) ==
    /\ Len(es) = Len(fs)
    /\ \A i \in 1..Len(es) :
          /\ [es[i] EXCEPT !.ro = FALSE, !.children = <<>>]
               = [fs[i] EXCEPT !.ro = FALSE, !.children = <<>>]
          /\ SameButRo(es[i].children, fs[i].children)

\* C27: recursive read-only flip.  When set_readonly_all(path, b) returns
\* Ok, the root, every directory and every file of the tree at every depth
\* has the read-only bit b, and nothing else of the tree has changed; and
\* after set_readonly_all(path, true) and then set_readonly_all(path,
\* false) have returned Ok, every entry is writable and remove_dir_all of
\* the tree by its unprivileged owner is permitted.
C27_RecursiveReadonlyFlip ==
    arg.fn = "set_readonly_all" =>
        /\ (Len(ret) >= 1 /\ ret[1].ok) =>
              /\ TreeHas(ret[1].dir, arg.ro_bool)
              /\ SameButRo(ret[1].dir.children, arg.dir.children)
        /\ (Len(ret) = 2 /\ ret[2].ok) =>
              /\ TreeHas(ret[2].dir, ~ arg.ro_bool)
              /\ SameButRo(ret[2].dir.children, arg.dir.children)
              /\ arg.ro_bool => RemovalPermitted(ret[2].dir, FALSE)

\* A tree with a file two directories down was made read-only, which an
\* unprivileged owner cannot remove, and then writable again.
C27_Witness ==
    /\ arg.fn = "set_readonly_all"
    /\ arg.ro_bool
    /\ \E i \in 1..Len(arg.dir.children) :
          /\ arg.dir.children[i].kind = "dir"
          /\ arg.dir.children[i].children # <<>>
          /\ arg.dir.children[i].children[1].children # <<>>
    /\ Len(ret) = 2
    /\ ret[1].ok
    /\ ret[2].ok
    /\ ~ RemovalPermitted(ret[1].dir, FALSE)
    /\ RemovalPermitted(ret[2].dir, FALSE)


\* C28: removal of a sealed slot.  A run that finds the slot an earlier
\* run built and sealed, and finds its content no longer matching the
\* hash, makes the slot writable and removes it: when nothing else goes
\* wrong the run ends with the slot gone and no removal error in its
\* HashError.
C28_SealedSlotRemoval ==
    (/\ pc = "done"
     /\ FirstRunBuilt
     /\ Len(results) >= 2
     /\ HasEvent("create_outdir", "EEXIST")
     /\ HasEvent("hash", "mismatch")
     /\ ~ faulted) =>
        /\ ~ slot.exists
        /\ result.teardown_err = ""


\* C29: content hash verification.  verify_hash_from_fn returns Ok with
\* the value of the streaming function exactly when that function
\* returned Ok and the digest of what it fed a new hasher equals the
\* stored digest; when the digests differ it returns BadHash with the
\* stored digest as expected and the computed one as found; and when the
\* streaming function failed it returns IOError whatever was fed, the
\* stored digest included.
C29_ContentHashVerification ==
    (arg.fn = "verify_hash_from_fn" /\ Len(ret) = 1) =>
        LET r == ret[1]
            computed == Digest(arg.func.fed)
        IN  /\ r.kind = "Ok" <=> (~ arg.func.fails /\ computed = arg.hash)
            /\ r.kind = "Ok" => r.side = arg.func.side
            /\ r.kind = "BadHash" <=> (~ arg.func.fails /\ computed # arg.hash)
            /\ r.kind = "BadHash" =>
                  /\ r.expected = arg.hash
                  /\ r.found = computed
            /\ r.kind = "IOError" <=> arg.func.fails

\* The bytes fed were not the ones the stored digest was made of.
C29_Witness ==
    /\ arg.fn = "verify_hash_from_fn"
    /\ arg.hash = Digest(SrcBytes)
    /\ arg.func = [fed |-> SrcBytesAltered, fails |-> FALSE, side |-> 2]
    /\ Len(ret) = 1
    /\ ret[1].kind = "BadHash"
    /\ ret[1].expected = Digest(SrcBytes)
    /\ ret[1].found = Digest(SrcBytesAltered)


\* C30: repeated runs stay successful.  After a first run that built the
\* package, every later run of the same configuration in which no system
\* call is made to fail, with the slot left as it was built, returns Ok,
\* as the runs before it did.
C30_RepeatedRuns ==
    (/\ pc = "done"
     /\ Len(results) >= 2
     /\ FirstRunBuilt
     /\ ~ tampered
     /\ ~ faulted
     /\ \A j \in 1..(Len(results) - 1) : results[j].kind = "Ok") =>
        results[Len(results)].kind = "Ok"


\* An unmount of this run failed.
UmountFailed == HasEvent("umount_out", "err") \/ HasEvent("umount_dep", "err")

\* C31: no recursive delete through a live bind mount.  The removal of the
\* build root is started only when every bind mount of the run, the
\* output mount and each dependency mount, one per position of the
\* dependency sequence, has left the mount table; a run in which an
\* unmount failed ends there, with its build root in place, and a build
\* root goes away only by that removal (or because a later process works
\* on another path).
C31_NoDeleteThroughMount ==
    /\ [](pc = "rm_root" => (mounts = <<>> /\ ~ UmountFailed))
    /\ [](HasOp("remove_build_root") => (mounts = <<>> /\ ~ UmountFailed))
    /\ [](UmountFailed => (pc = "done" /\ buildRoot.exists /\ mounts # <<>>))
    /\ [][ (buildRoot.exists /\ ~ buildRoot'.exists) =>
              \/ pc = "rm_root" /\ mounts = <<>>
              \/ runNo' # runNo ]_vars

\* A run mounted the same dependency twice, unmounted both mounts and the
\* others, and removed its build root.
C31_Witness ==
    /\ \E i, j \in 1..Len(self_dependencies(cxt)) :
          i # j /\ self_dependencies(cxt)[i] = self_dependencies(cxt)[j]
    /\ Cardinality({ i \in 1..Len(log) :
                        log[i] = [op |-> "mount_dep", out |-> "ok"] })
         = Len(self_dependencies(cxt))
    /\ HasEvent("remove_build_root", "ok")
    /\ mounts = <<>>
    /\ ~ buildRoot.exists


\* C32: a matching slot is never deleted.  A run calls the removal of the
\* output slot only after a directory hash was computed over the slot and
\* found different from the package's hash.
C32_MatchingSlotKept ==
    HasOp("remove_slot") =>
        /\ HasEvent("hash", "mismatch")
        /\ hashed.done
        /\ DirHash(hashed.children) # cxt.pkg_info.hash


\* C35: builder-set variables cannot be overridden.  In the environment
\* the build command was started with, out is the path of the output slot
\* and PATH is the PATH string of the dependencies, whatever the names of
\* the dependencies and the keys of the configured build settings are.
C35_BuilderVariables ==
    ChildRan =>
        /\ {"out", "PATH"} \subseteq DOMAIN childEnv
        /\ childEnv["out"] = OutSlotText
        /\ childEnv["PATH"] = SegmentsFrom(store_dir, dependencies(cxt), 1)

\* The build command ran for a package with dependencies named out and
\* PATH and a build setting named PATH.
C35_Witness ==
    /\ ChildRan
    /\ "PATH" \in DOMAIN cxt.build_settings
    /\ {"out", "PATH"} \subseteq NamesOf(dependencies(cxt))
    /\ childEnv["PATH"] # cxt.build_settings["PATH"]
    /\ childEnv["out"] = OutSlotText


\* The text has a "-" in it.
HasDash(text) == \E i \in 1..Len(text) : SubSeq(text, i, i) = "-"

\* Name, version and hash of two packages are the same.
SameTriple(p, q) ==
    p.pkg_name = q.pkg_name /\ p.pkg_version = q.pkg_version /\ p.hash = q.hash

\* C34 as stated: a package whose (name, version, hash) differs from that
\* of the package pkg_ident was called on has another identifier, whatever
\* the texts of name and version.
C34_IdentifierInjectivity_Original ==
    (arg.fn = "pkg_ident" /\ Len(ret) = 1) =>
        \A q \in IdentPkgs :
            ~ SameTriple(arg.pkg, q) => pkg_ident(q) # ret[1]

\* C34: identifier injectivity.  A package has the identifier pkg_ident
\* returned for another one exactly when the two have the same hash and
\* their names and versions, joined by "-", read the same; so packages of
\* different hashes never have the same identifier, and neither have
\* packages of different (name, version, hash) whose names and versions
\* hold no "-".
C34_IdentifierInjectivity ==
    (arg.fn = "pkg_ident" /\ Len(ret) = 1) =>
        LET p == arg.pkg
        IN  \A q \in IdentPkgs :
                /\ pkg_ident(q) = ret[1] <=>
                      /\ q.hash = p.hash
                      /\ q.pkg_name \o "-" \o q.pkg_version
                           = p.pkg_name \o "-" \o p.pkg_version
                /\ (/\ ~ SameTriple(p, q)
                    /\ ~ HasDash(p.pkg_name) /\ ~ HasDash(p.pkg_version)
                    /\ ~ HasDash(q.pkg_name) /\ ~ HasDash(q.pkg_version)) =>
                      pkg_ident(q) # ret[1]

\* pkg_ident has returned for a package whose name and version can be
\* split at another "-" into those of another package with the same hash.
C34_Witness ==
    /\ arg.fn = "pkg_ident"
    /\ Len(ret) = 1
    /\ arg.pkg.pkg_name = "a-b"
    /\ arg.pkg.pkg_version = "1-0"
    /\ \E q \in IdentPkgs :
          /\ q.pkg_name = "a-b-1"
          /\ q.pkg_version = "0"
          /\ q.hash = arg.pkg.hash
          /\ pkg_ident(q) = ret[1]


\* C36: materialized file equals verified bytes.  Every file a fetch of a
\* file resource has written into the build root holds bytes that hash to
\* the resource's hash, also when the source file is rewritten by someone
\* else between the pass that verifies it and the pass that copies it.
C36_MaterializedEqualsVerified ==
    (HasEvent("create_context_dir", "ok") /\ buildRoot.exists) =>
        \A k \in 1..WrittenCount :
            LET r == self_resources(cxt)[k]
            IN  r.scheme = "file" =>
                   /\ r.name \in DOMAIN buildRoot.files
                   /\ Digest(buildRoot.files[r.name]) = r.hash


\* The first process is between the creation of its build root and its
\* removal; so is the second.
MainInside ==
    HasEvent("create_context_dir", "ok") /\ ~ HasEvent("remove_build_root", "ok")
PeerInside == peer.owns

\* C33: build root as mutual exclusion.  Of two exec_build processes on
\* the same package name, store and temp directory, at most one is
\* between the creation and the removal of the build root.  While one is,
\* the create_context_dir of the other fails with EEXIST and its
\* exec_build returns SetupError, and no step the other takes creates,
\* changes, hashes or removes the slot.
C33_BuildRootExclusion ==
    /\ [](~ (MainInside /\ PeerInside))
    /\ []((MainInside \/ PeerInside) => buildRoot.exists)
    /\ []((peer.kind = "SetupError" /\ peer.cause = "EEXIST") =>
             (~ peer.touched /\ ~ peer.owns))
    /\ []((HasEvent("create_context_dir", "EEXIST") /\ pc = "done") =>
             (result.kind = "SetupError" /\ ~ HasOp("create_outdir")
                /\ ~ HasOp("hash") /\ ~ HasOp("remove_slot")))
    /\ [][ /\ (MainInside /\ peer' # peer) =>
                 /\ slot' = slot
                 /\ buildRoot' = buildRoot
                 /\ peer'.pc \in {"mkroot", "done"}
                 /\ peer'.pc = "done" =>
                       (peer'.kind = "SetupError" /\ peer'.cause = "EEXIST")
           /\ (PeerInside /\ peer' = peer /\ pc' # pc) =>
                 /\ slot' = slot
                 /\ buildRoot' = buildRoot
                 /\ hashed' = hashed \/ pc' = "canon"
                 /\ pc' \in {"canon", "mkroot", "done"}
                 /\ (pc = "mkroot" /\ pc' = "done") =>
                       (result'.kind = "SetupError" /\ result'.cause = "EEXIST")
         ]_vars

\* The second process was building into the slot when the first one
\* called create_context_dir, and the first one returned SetupError.
C33_Witness ==
    /\ peer.pc = "verify"
    /\ peer.owns
    /\ slot.exists
    /\ slot.children # <<>>
    /\ pc = "done"
    /\ LastEvent = [op |-> "create_context_dir", out |-> "EEXIST"]
    /\ result.kind = "SetupError"


\* The entries outside the tree rooted at the directory handed to
\* set_readonly_all.
OutsideTree == Chmodable(arg.fs) \ Below(arg.fs, arg.fs.root)

\* C37: sealing stays inside the slot.  set_readonly_all(dir, b) changes
\* the permissions of no entry outside the tree rooted at dir: the target
\* of a link of the tree that lies outside it, and the entries below the
\* target, keep the permissions they had before the call.
C37_SealingStaysInside ==
    walk.status # "idle" =>
        \A id \in OutsideTree : walk.ro[id] = PermsBefore(arg)[id]

\* Most calls a call of set_readonly_all is nested in: between two links
\* a path goes down through directories of the tree, of which there are
\* no more than entries.
MaxNesting == Cardinality(DOMAIN arg.fs.nodes) * (MaxSymlinks + 1)

\* No pending call is nested deeper than the links the kernel follows allow.
NestingBounded ==
    \A i \in 1..Len(walk.stack) :
        /\ walk.stack[i].links <= MaxSymlinks
        /\ walk.stack[i].depth <= MaxNesting

\* C38: sealing terminates.  On every finite directory tree, a tree with a
\* link to one of the directories the link lies in included, the calls
\* set_readonly_all makes are nested boundedly deep and the outermost
\* call returns, with Ok or with an error.
C38_SealingTerminates ==
    /\ [](walk.status # "idle" => NestingBounded)
    /\ <>(walk.status \in {"Ok", "Err"})

\* The call on the slot with a link to its own top directory went through
\* the link as often as the kernel allows and returned the kernel's ELOOP.
C38_Witness ==
    /\ arg.fs = FsAncestor
    /\ walk.status = "Err"
    /\ walk.err = "ELOOP"
    /\ Head(walk.stack).links = MaxSymlinks
    /\ walk.ro["out"] = arg.ro_bool

=============================================================================
